---- MODULE Spec2Model ----
(***************************************************************************)
(* The temporal dataset construction pipeline of FPL_data: the finished-   *)
(* gameweek index (src/io/index.py), the label builder                     *)
(* (src/labels/targets.py), the feature builders (src/features) and the    *)
(* dataset assembler (src/pipelines/build_dataset.py).                     *)
(*                                                                         *)
(* A DataFrame is a record [cols, rows]: cols is the set of column names,  *)
(* rows the sequence of rows in frame order, each row a function from      *)
(* column name to cell.  Key cells (gw, ids) are integers.  A numeric cell *)
(* that pandas may hold as NaN is NaN == <<>> or a reduced fraction        *)
(* <<n, d>> with d > 0.  A cell of an object column (the finished flag) is *)
(* a tagged Python value, see PyBool .. PyNaN.                             *)
(***************************************************************************)
EXTENDS Integers, Sequences, FiniteSets, TLC

VARIABLES
    pc,              \* position of the run: "start", then the operation that ran
    tables,          \* the loaded tables, by table name (load_tables' result)
    cfg,             \* configuration: horizons, rolling_windows, min_minutes
    df,              \* the frame handed to a builder that is called on its own
    finished_index,  \* FinishedGwIndex of the run
    data,            \* the frame (or Series) the operation returned
    earlier          \* the frame an earlier run over fewer gameweeks returned

vars == <<pc, tables, cfg, df, finished_index, data, earlier>>

----------------------------------------------------------------------------
(* Bounds of the model *)

\* gameweeks of the match tables the index is computed from are 1..IdxMaxGw
IdxMaxGw == 3
\* at most this many match rows carry the same gameweek tag
MaxMatchesPerGw == 2
\* gameweeks of the frames the label builder is called on are 1..LabMaxGw
LabMaxGw == 5
\* gameweeks of the frames the labelable mask is called on are 1..MaskMaxGw
MaskMaxGw == 7
\* max_finished_gw handed to the labelable mask is in 0..MaskMaxFinished
MaskMaxFinished == 10
\* gameweek snapshots of the tables the pipelines are run on are 1..PipeMaxGw
PipeMaxGw == 4
\* gameweek snapshots of the tables of the repeated run are 1..RerunMaxGw
RerunMaxGw == 3
RollMaxGw == 4
FxMaxGw == 3
MaxDirs == 3

----------------------------------------------------------------------------
(* Cells, numbers and sequences *)

NaN == <<>>

IsNaN(c) == c = NaN

RECURSIVE Gcd(_, _)
Gcd(a, b) == IF b = 0 THEN a ELSE Gcd(b, a % b)

\* the number n/d (d # 0) as a cell
Frac(n, d) ==
    LET s == IF d < 0 THEN -1 ELSE 1
        g == Gcd(IF n < 0 THEN -n ELSE n, IF d < 0 THEN -d ELSE d)
    IN  <<(s * n) \div g, (s * d) \div g>>

Num(n) == <<n, 1>>

Range(s) == {s[i] : i \in DOMAIN s}

SetMax(S) == CHOOSE x \in S : \A y \in S : y <= x

SetMin(S) == CHOOSE x \in S : \A y \in S : x <= y

\* the elements of a finite set of integers in ascending order
RECURSIVE SortedSeq(_)
SortedSeq(S) ==
    IF S = {} THEN <<>>
    ELSE LET m == SetMin(S) IN <<m>> \o SortedSeq(S \ {m})

\* Python's max() of a non-empty sequence of integers
PyMax(s) == SetMax(Range(s))

\* a frame of the given columns and rows, its rows laid out as a sequence
Frame(cols, rows) == [cols |-> cols, rows |-> SubSeq(rows, 1, Len(rows))]

\* pd.DataFrame(): no columns, no rows
EmptyFrame == Frame({}, <<>>)

\* DataFrame.empty: no rows or no columns
IsEmpty(f) == f.rows = <<>> \/ f.cols = {}

\* an exception raised by the operation
Raised(kind, msg) == [raised |-> kind, msg |-> msg]

IsRaised(x) == "raised" \in DOMAIN x

----------------------------------------------------------------------------
(* Python values of an object column, and str() of them *)

PyBool(b) == [t |-> "bool", b |-> b, n |-> 0, s |-> <<>>]
PyInt(n) == [t |-> "int", b |-> FALSE, n |-> n, s |-> <<>>]
PyFloat(n) == [t |-> "float", b |-> FALSE, n |-> n, s |-> <<>>]
PyStr(s) == [t |-> "str", b |-> FALSE, n |-> 0, s |-> s]
PyNaN == [t |-> "nan", b |-> FALSE, n |-> 0, s |-> <<>>]

\* decimal digits of a natural number, as a sequence of characters
RECURSIVE Digits(_)
Digits(n) ==
    LET d == <<"0", "1", "2", "3", "4", "5", "6", "7", "8", "9">>[(n % 10) + 1]
    IN  IF n < 10 THEN <<d>> ELSE Digits(n \div 10) \o <<d>>

\* Series.astype(str) of one cell: str(True) = "True", str(1) = "1",
\* str(1.0) = "1.0", str(nan) = "nan"
AsStr(c) ==
    CASE c.t = "bool" -> IF c.b THEN <<"T", "r", "u", "e">>
                                ELSE <<"F", "a", "l", "s", "e">>
      [] c.t = "int" -> Digits(c.n)
      [] c.t = "float" -> Digits(c.n) \o <<".", "0">>
      [] c.t = "str" -> c.s
      [] c.t = "nan" -> <<"n", "a", "n">>

Upper == <<"A", "B", "C", "D", "E", "F", "G", "H", "I", "J", "K", "L", "M",
           "N", "O", "P", "Q", "R", "S", "T", "U", "V", "W", "X", "Y", "Z">>
Lower == <<"a", "b", "c", "d", "e", "f", "g", "h", "i", "j", "k", "l", "m",
           "n", "o", "p", "q", "r", "s", "t", "u", "v", "w", "x", "y", "z">>

LowerChar(ch) ==
    IF \E i \in DOMAIN Upper : Upper[i] = ch
    THEN Lower[CHOOSE i \in DOMAIN Upper : Upper[i] = ch]
    ELSE ch

\* str.lower()
StrLower(s) == [i \in DOMAIN s |-> LowerChar(s[i])]

\* str.strip(): leading and trailing blanks removed
RECURSIVE StrStrip(_)
StrStrip(s) ==
    IF s = <<>> THEN s
    ELSE IF Head(s) = " " THEN StrStrip(Tail(s))
    ELSE IF s[Len(s)] = " " THEN StrStrip(SubSeq(s, 1, Len(s) - 1))
    ELSE s

----------------------------------------------------------------------------
(* src/io/index.py *)

TruthyStrings ==
    {<<"t", "r", "u", "e">>, <<"1">>, <<"t">>, <<"y", "e", "s">>}

\* one cell of _to_bool_series
_to_bool_series(c) == StrLower(StrStrip(AsStr(c))) \in TruthyStrings

\* the groups of tmp.groupby(gw_col, sort=True): the distinct keys, ascending
GroupKeys(rows, col) == SortedSeq({rows[i][col] : i \in DOMAIN rows})

\* the variant with any() in place of all()
GroupAnyFinished(rows, gw_col, gw) ==
    \E i \in DOMAIN rows :
        rows[i][gw_col] = gw /\ _to_bool_series(rows[i]["finished"])

\* g["finished_bool"].all() of the group of key gw
GroupAllFinished(rows, gw_col, gw) ==
    \A i \in DOMAIN rows :
        rows[i][gw_col] = gw => _to_bool_series(rows[i]["finished"])

FinishedGwIndex(gws, mx) == [finished_gws |-> gws, max_finished_gw |-> mx]

\* the variant that takes the first qualifying gameweek
MaxFinishedFirst(finished_gws) ==
    IF finished_gws # <<>> THEN finished_gws[1] ELSE 0

\* max(finished_gws) if finished_gws else 0
MaxFinished(finished_gws) ==
    IF finished_gws # <<>> THEN PyMax(finished_gws) ELSE 0

compute_finished_gws(matches) ==
    LET gw_col == IF "gw" \in matches.cols THEN "gw" ELSE "gameweek"
    IN  IF gw_col \notin matches.cols
        THEN Raised("ValueError", "matches must include gw or gameweek column")
        ELSE IF "finished" \notin matches.cols
        THEN Raised("ValueError", "matches must include finished column")
        ELSE LET keys == GroupKeys(matches.rows, gw_col)
                 finished_gws ==
                     SelectSeq(keys,
                         LAMBDA gw : GroupAllFinished(matches.rows, gw_col, gw))
             IN  FinishedGwIndex(finished_gws, MaxFinished(finished_gws))

----------------------------------------------------------------------------
(* pandas primitives *)

AddCells(a, b) == Frac(a[1] * b[2] + b[1] * a[2], a[2] * b[2])

\* the sum of a sequence of cells none of which is NaN
RECURSIVE SumCells(_)
SumCells(s) == IF s = <<>> THEN Num(0) ELSE AddCells(Head(s), SumCells(Tail(s)))

\* a / k for an integer k # 0; NaN stays NaN
DivCell(a, k) == IF IsNaN(a) THEN NaN ELSE Frac(a[1], a[2] * k)

NotNaN(c) == ~IsNaN(c)

\* Series.shift(k): the value k places earlier (k < 0: later), NaN outside
Shift(s, k) ==
    [i \in DOMAIN s |-> IF (i - k) \in DOMAIN s THEN s[i - k] ELSE NaN]

\* the observed values of the window of size w that ends at place i
Window(s, w, i) ==
    SelectSeq(SubSeq(s, IF i - w + 1 < 1 THEN 1 ELSE i - w + 1, i), NotNaN)

\* Series.rolling(w, min_periods).sum()
RollingSum(s, w, min_periods) ==
    [i \in DOMAIN s |->
        IF Len(Window(s, w, i)) >= min_periods
        THEN SumCells(Window(s, w, i)) ELSE NaN]

\* Series.rolling(w, min_periods).mean()
RollingMean(s, w, min_periods) ==
    [i \in DOMAIN s |->
        IF Len(Window(s, w, i)) >= min_periods /\ Window(s, w, i) # <<>>
        THEN DivCell(SumCells(Window(s, w, i)), Len(Window(s, w, i))) ELSE NaN]

\* row a sorts before row b on the key columns by (lexicographic)
RECURSIVE RowLess(_, _, _)
RowLess(a, b, by) ==
    IF by = <<>> THEN FALSE
    ELSE \/ a[Head(by)] < b[Head(by)]
         \/ a[Head(by)] = b[Head(by)] /\ RowLess(a, b, Tail(by))

\* the place of row r in the sorted sequence s: after every row not greater
RECURSIVE InsertRow(_, _, _)
InsertRow(s, r, by) ==
    IF s = <<>> THEN <<r>>
    ELSE IF RowLess(r, Head(s), by) THEN <<r>> \o s
    ELSE <<Head(s)>> \o InsertRow(Tail(s), r, by)

\* DataFrame.sort_values(by) on integer key columns: stable, ascending
RECURSIVE SortRows(_, _)
SortRows(rows, by) ==
    IF rows = <<>> THEN <<>>
    ELSE InsertRow(SortRows(SubSeq(rows, 1, Len(rows) - 1), by), rows[Len(rows)], by)

\* the variant that leaves the rows in the order of the input
sort_values_none(f, by) == f

sort_values(f, by) == Frame(f.cols, SortRows(f.rows, by))

\* the places of the rows of the group of row i, in frame order
GroupPlaces(rows, id_col, i) ==
    SelectSeq([j \in DOMAIN rows |-> j], LAMBDA j : rows[j][id_col] = rows[i][id_col])

\* the series of column col of the group of row i, and the place of row i in
\* it: what df.groupby(id_col, sort=False)[col].transform(F) hands to F and
\* where it lays F's result back
GroupSeries(rows, id_col, col, i) ==
    LET places == GroupPlaces(rows, id_col, i)
    IN  [n \in DOMAIN places |-> rows[places[n]][col]]

GroupIndex(rows, id_col, i) ==
    LET places == GroupPlaces(rows, id_col, i)
    IN  CHOOSE k \in DOMAIN places : places[k] = i

\* df[name] = values: the column added to (or replaced in) every row
SetColumn(f, name, values) ==
    Frame(f.cols \cup {name},
          [i \in DOMAIN f.rows |-> (name :> values[i]) @@ f.rows[i]])

\* Series.mean(): the mean of the observed cells, NaN when there is none
MeanCells(s) ==
    LET obs == SelectSeq(s, NotNaN)
    IN  IF obs = <<>> THEN NaN ELSE DivCell(SumCells(obs), Len(obs))

\* a < b for two numbers held as cells
CellLess(a, b) == a[1] * b[2] < b[1] * a[2]

RECURSIVE Flatten(_)
Flatten(ss) == IF ss = <<>> THEN <<>> ELSE Head(ss) \o Flatten(Tail(ss))

\* df[cols]
Project(f, cols) ==
    Frame(cols, [i \in DOMAIN f.rows |-> [c \in cols |-> f.rows[i][c]]])

\* df.drop(columns=cols, errors="ignore")
DropColumns(f, cols) == Project(f, f.cols \ cols)

\* df.rename(columns={old: new}) when old is a column
RenameColumn(f, old, new) ==
    IF old \notin f.cols THEN f
    ELSE Frame((f.cols \ {old}) \cup {new},
               [i \in DOMAIN f.rows |->
                   [c \in (f.cols \ {old}) \cup {new} |->
                       IF c = new THEN f.rows[i][old] ELSE f.rows[i][c]]])

\* df.drop_duplicates(subset=[key], keep="last").reset_index(drop=True)
DropDuplicatesLast(f, key) ==
    Frame(f.cols,
          Flatten([i \in DOMAIN f.rows |->
              IF \E j \in DOMAIN f.rows : j > i /\ f.rows[j][key] = f.rows[i][key]
              THEN <<>> ELSE <<f.rows[i]>>]))

\* the variant with how="inner": a left row without a match is dropped
InnerMerge(left, right, left_on, right_on) ==
    LET shared == {left_on[k] : k \in {n \in DOMAIN left_on : left_on[n] = right_on[n]}}
        overlap == (left.cols \cap right.cols) \ shared
        lname == [c \in left.cols |-> IF c \in overlap THEN c \o "_x" ELSE c]
        rname == [c \in right.cols |-> IF c \in overlap THEN c \o "_y" ELSE c]
        cols == {lname[c] : c \in left.cols} \cup {rname[c] : c \in right.cols}
        fromLeft(o) == \E c \in left.cols : lname[c] = o
        lcol(o) == CHOOSE c \in left.cols : lname[c] = o
        rcol(o) == CHOOSE c \in right.cols : rname[c] = o
        hits(l) == SelectSeq(right.rows,
                       LAMBDA r : \A k \in DOMAIN left_on : r[right_on[k]] = l[left_on[k]])
        join(l, r) == [o \in cols |-> IF fromLeft(o) THEN l[lcol(o)] ELSE r[rcol(o)]]
        rowsOf(l, found) == IF found = <<>> THEN <<>>
                            ELSE [k \in DOMAIN found |-> join(l, found[k])]
    IN  Frame(cols, Flatten([i \in DOMAIN left.rows |->
                                rowsOf(left.rows[i], hits(left.rows[i]))]))

\* left.merge(right, left_on=left_on, right_on=right_on, how="left"): every
\* left row once per matching right row, or once with NaN in the right
\* columns; a column of both frames that is no shared key gets _x and _y
LeftMerge(left, right, left_on, right_on) ==
    LET shared == {left_on[k] : k \in {n \in DOMAIN left_on : left_on[n] = right_on[n]}}
        overlap == (left.cols \cap right.cols) \ shared
        lname == [c \in left.cols |-> IF c \in overlap THEN c \o "_x" ELSE c]
        rname == [c \in right.cols |-> IF c \in overlap THEN c \o "_y" ELSE c]
        cols == {lname[c] : c \in left.cols} \cup {rname[c] : c \in right.cols}
        fromLeft(o) == \E c \in left.cols : lname[c] = o
        lcol(o) == CHOOSE c \in left.cols : lname[c] = o
        rcol(o) == CHOOSE c \in right.cols : rname[c] = o
        hits(l) == SelectSeq(right.rows,
                       LAMBDA r : \A k \in DOMAIN left_on : r[right_on[k]] = l[left_on[k]])
        join(l, r) == [o \in cols |-> IF fromLeft(o) THEN l[lcol(o)] ELSE r[rcol(o)]]
        miss(l) == [o \in cols |-> IF fromLeft(o) THEN l[lcol(o)] ELSE NaN]
        rowsOf(l, found) == IF found = <<>> THEN <<miss(l)>>
                            ELSE [k \in DOMAIN found |-> join(l, found[k])]
    IN  Frame(cols, Flatten([i \in DOMAIN left.rows |->
                                rowsOf(left.rows[i], hits(left.rows[i]))]))

\* left.merge(right, on=on, how="left")
LeftMergeOn(left, right, on) == LeftMerge(left, right, on, on)

----------------------------------------------------------------------------
(* src/labels/targets.py *)

\* DEFAULT_TARGET_MAP, in dict order: <<target name, source column>>
DEFAULT_TARGET_MAP ==
    << <<"points", "event_points">>,
       <<"expected_goals", "expected_goals">>,
       <<"expected_assists", "expected_assists">>,
       <<"defensive_contribution", "defensive_contribution">>,
       <<"goals_conceded", "goals_conceded">>,
       <<"saves", "saves">> >>

TotalCol(target_name, h) == target_name \o "_next_" \o ToString(h) \o "_total"

PerWeekCol(target_name, h) == target_name \o "_next_" \o ToString(h) \o "_per_week"

\* the window that accepts fewer than h future rows
FutureSumPartial(s, h) ==
    Shift(RollingSum(Shift(s, -1), h, 1), -(h - 1))

\* s.shift(-1).rolling(window=h, min_periods=h).sum().shift(-(h - 1))
FutureSum(s, h) ==
    Shift(RollingSum(Shift(s, -1), h, h), -(h - 1))

\* the body of the loop over horizons, for one target, from horizon place k on
RECURSIVE LabelHorizons(_, _, _, _, _)
LabelHorizons(f, target_name, src_col, horizons, k) ==
    IF k > Len(horizons) THEN f
    ELSE LET h == horizons[k]
             total == [i \in DOMAIN f.rows |->
                          FutureSum(GroupSeries(f.rows, "player_id", src_col, i), h)
                              [GroupIndex(f.rows, "player_id", i)]]
             per_week == [i \in DOMAIN total |-> DivCell(total[i], h)]
         IN  LabelHorizons(
                 SetColumn(SetColumn(f, TotalCol(target_name, h), total),
                           PerWeekCol(target_name, h), per_week),
                 target_name, src_col, horizons, k + 1)

\* the loop over target_map.items(), from place t on
RECURSIVE LabelTargets(_, _, _, _, _)
LabelTargets(f, horizons, target_map, require_all, t) ==
    IF t > Len(target_map) THEN f
    ELSE IF target_map[t][2] \notin f.cols
    THEN IF require_all
         THEN Raised("ValueError", "Missing target source column")
         ELSE LabelTargets(f, horizons, target_map, require_all, t + 1)
    ELSE LabelTargets(
             LabelHorizons(f, target_map[t][1], target_map[t][2], horizons, 1),
             horizons, target_map, require_all, t + 1)

add_horizon_labels(f, horizons, target_map, require_all) ==
    IF "player_id" \notin f.cols \/ "gw" \notin f.cols
    THEN Raised("ValueError", "Missing required columns")
    ELSE LabelTargets(sort_values(f, <<"player_id", "gw">>),
                      horizons, target_map, require_all, 1)

\* the variant that compares with max_finished_gw alone
labelable_mask_no_horizon(f, max_finished_gw, horizons) ==
    [i \in DOMAIN f.rows |-> f.rows[i]["gw"] <= max_finished_gw]

labelable_mask(f, max_finished_gw, horizons) ==
    IF "gw" \notin f.cols THEN Raised("ValueError", "Missing column: gw")
    ELSE LET max_h == IF horizons # <<>> THEN PyMax(horizons) ELSE 0
         IN  [i \in DOMAIN f.rows |-> f.rows[i]["gw"] <= max_finished_gw - max_h]

----------------------------------------------------------------------------
(* src/pipelines/build_dataset.py: the base dataset *)

\* the variant that keeps the rows of every snapshot
_all_by_key(f, key) == f

_latest_by_key(f, key) ==
    IF IsEmpty(f) THEN f
    ELSE IF "gw" \notin f.cols THEN DropDuplicatesLast(f, key)
    ELSE DropDuplicatesLast(sort_values(f, <<"gw">>), key)

\* matches.assign(team_id=..., opp_id=..., is_home=..., team_elo=..., opp_elo=...)
SideRows(m, home) ==
    [i \in DOMAIN m.rows |->
        LET r == m.rows[i] IN
        [team_id |-> IF home THEN r["home_team"] ELSE r["away_team"],
         opp_id |-> IF home THEN r["away_team"] ELSE r["home_team"],
         is_home |-> IF home THEN Num(1) ELSE Num(0),
         team_elo |-> IF home THEN r["home_team_elo"] ELSE r["away_team_elo"],
         opp_elo |-> IF home THEN r["away_team_elo"] ELSE r["home_team_elo"]] @@ r]

\* pd.concat([home_rows, away_rows], ignore_index=True)
TeamMatchRows(m) == Frame(m.cols \cup {"team_id", "opp_id", "is_home", "team_elo", "opp_elo"}, SideRows(m, TRUE) \o SideRows(m, FALSE))

\* the (gw, team_id) keys of a groupby, ascending; rows of a NaN key are dropped
RECURSIVE SortedGwTeam(_)
SortedGwTeam(K) ==
    IF K = {} THEN <<>>
    ELSE LET m == CHOOSE x \in K : \A y \in K :
                      \/ x[1] < y[1]
                      \/ x[1] = y[1] /\ ~CellLess(y[2], x[2])
         IN  <<m>> \o SortedGwTeam(K \ {m})

GwTeamKeys(rows) ==
    SortedGwTeam({<<rows[i]["gw"], rows[i]["team_id"]>> :
                     i \in {j \in DOMAIN rows : ~IsNaN(rows[j]["team_id"])}})

\* matches with a gw column: its own, or a copy of gameweek
WithGwAlias(matches) ==
    IF "gw" \notin matches.cols /\ "gameweek" \in matches.cols
    THEN SetColumn(matches, "gw",
                   [i \in DOMAIN matches.rows |-> matches.rows[i]["gameweek"]])
    ELSE matches

_build_team_gw_features(matches, teams_dim, max_finished_gw) ==
    LET \* matches[matches["gw"] <= max_finished_gw]
        upto(m) == Frame(m.cols, SelectSeq(m.rows, LAMBDA r : r["gw"] <= max_finished_gw))
        \* teams_dim[["id", "strength"]].rename(columns=...)
        strength(id_col, name) ==
            RenameColumn(RenameColumn(Project(teams_dim, {"id", "strength"}),
                             "id", id_col), "strength", name)
        \* the home and away rows with both strengths merged on
        team_matches(m) ==
            LeftMergeOn(LeftMergeOn(TeamMatchRows(m),
                                    strength("team_id", "team_strength"), <<"team_id">>),
                        strength("opp_id", "opp_strength"), <<"opp_id">>)
        \* one group of groupby(["gw", "team_id"]) and the mean of a column of it
        grp(tm, k) == SelectSeq(tm.rows, LAMBDA r : r["gw"] = k[1] /\ r["team_id"] = k[2])
        mean(g, c) == MeanCells([i \in DOMAIN g |-> g[i][c]])
        agg(k, g) ==
            [gw |-> k[1],
             team_id |-> k[2],
             fixture_count |-> Num(Len(g)),
             home_share |-> mean(g, "is_home"),
             team_elo_avg |-> mean(g, "team_elo"),
             opp_elo_avg |-> mean(g, "opp_elo"),
             team_strength_avg |-> mean(g, "team_strength"),
             opp_strength_avg |-> mean(g, "opp_strength")]
        grouped(tm, keys) ==
            Frame({"gw", "team_id", "fixture_count", "home_share", "team_elo_avg",
                   "opp_elo_avg", "team_strength_avg", "opp_strength_avg"},
                  [n \in DOMAIN keys |-> agg(keys[n], grp(tm, keys[n]))])
        team_gw(tm) == grouped(tm, GwTeamKeys(tm.rows))
    IN  IF IsEmpty(matches) THEN EmptyFrame
        ELSE team_gw(team_matches(upto(WithGwAlias(matches))))

\* minutes >= min_minutes of a row; a missing value compares false
MinutesAtLeast(r, min_minutes) ==
    ~IsNaN(r["minutes"]) /\ ~CellLess(r["minutes"], Num(min_minutes))

\* the coalescing of the name columns col_x and col_y of the merged frame
CoalesceName(f, col) ==
    IF IsRaised(f) THEN f
    ELSE IF col \in f.cols THEN f
    ELSE IF (col \o "_x") \in f.cols \/ (col \o "_y") \in f.cols
    THEN IF (col \o "_x") \in f.cols /\ (col \o "_y") \in f.cols
         THEN DropColumns(
                  SetColumn(f, col,
                      [i \in DOMAIN f.rows |->
                          IF IsNaN(f.rows[i][col \o "_x"]) THEN f.rows[i][col \o "_y"]
                          ELSE f.rows[i][col \o "_x"]]),
                  {col \o "_x", col \o "_y"})
         ELSE Raised("KeyError", col)
    ELSE f

\* the variant that passes an empty fact table through and skips the gw
\* check
build_base_dataset_passthrough(tbl, index, min_minutes) ==
    LET pgw_all == IF IsEmpty(tbl["player_gameweek_stats"]) THEN tbl["playerstats"]
                   ELSE tbl["player_gameweek_stats"]
    IN  IF IsEmpty(pgw_all) \/ "gw" \notin pgw_all.cols
        THEN RenameColumn(pgw_all, "id", "player_id")
        ELSE LeftMergeOn(RenameColumn(pgw_all, "id", "player_id"),
                         DropColumns(_latest_by_key(tbl["players"], "player_id"), {"gw"}),
                         <<"player_id">>)

build_base_dataset(tbl, index, min_minutes) ==
    LET pgw_all == IF IsEmpty(tbl["player_gameweek_stats"]) THEN tbl["playerstats"]
                   ELSE tbl["player_gameweek_stats"]
        \* pgw[pgw["gw"] <= max_finished_gw], pgw[pgw["minutes"] >= min_minutes]
        \* and the rename of id
        facts(f) ==
            RenameColumn(
                Frame(f.cols,
                      SelectSeq(f.rows,
                          LAMBDA r : r["gw"] <= index.max_finished_gw
                                     /\ MinutesAtLeast(r, min_minutes))),
                "id", "player_id")
        \* players_dim with the team columns of teams_dim merged on
        with_teams(players_dim, teams_dim) ==
            RenameColumn(RenameColumn(RenameColumn(RenameColumn(
                LeftMerge(players_dim,
                          Project(teams_dim, {"code", "id", "name", "strength", "elo"}),
                          <<"team_code">>, <<"code">>),
                "id", "team_id"), "name", "team_name"),
                "strength", "team_strength"), "elo", "team_elo")
        names(base) ==
            CoalesceName(CoalesceName(CoalesceName(base, "first_name"),
                                      "second_name"), "web_name")
        with_team_gw(base, team_gw) ==
            IF IsRaised(base) THEN base
            ELSE IF ~IsEmpty(team_gw) THEN LeftMergeOn(base, team_gw, <<"gw", "team_id">>)
            ELSE base
        build(teams_dim) ==
            with_team_gw(
                names(LeftMergeOn(facts(pgw_all),
                          with_teams(DropColumns(_latest_by_key(tbl["players"], "player_id"),
                                                 {"gw"}),
                                     teams_dim),
                          <<"player_id">>)),
                _build_team_gw_features(tbl["matches"], teams_dim, index.max_finished_gw))
    IN  IF IsEmpty(pgw_all)
        THEN Raised("ValueError", "player_gameweek_stats and playerstats are both empty")
        ELSE IF "gw" \notin pgw_all.cols
        THEN Raised("ValueError", "player_gameweek_stats missing gw column")
        ELSE build(_latest_by_key(tbl["teams"], "code"))

----------------------------------------------------------------------------
(* src/features/player_features.py *)

DEFAULT_ROLLING_COLS ==
    <<"minutes", "event_points", "expected_goals", "expected_assists",
      "goals_scored", "assists", "defensive_contribution", "saves",
      "clean_sheets", "goals_conceded", "influence", "creativity", "threat",
      "ict_index", "bps", "bonus">>

\* [c for c in cols if c in df.columns]
_available_cols(f, cols) == SelectSeq(cols, LAMBDA c : c \in f.cols)

Per90Col(c) == c \o "_per90"

RollCol(c, w) == c \o "_roll" \o ToString(w)

\* a quotient with divisor 0 as pandas gives it: +inf, -inf (NaN for 0 / 0)
Inf(sign) == <<sign, 0>>

\* the variant that divides by the raw minutes
Per90Unguarded(x, minutes) ==
    IF IsNaN(x) \/ IsNaN(minutes) THEN NaN
    ELSE IF minutes[1] = 0
    THEN (IF x[1] = 0 THEN NaN ELSE Inf(IF x[1] > 0 THEN 1 ELSE -1))
    ELSE Frac(x[1] * minutes[2] * 90, x[2] * minutes[1])

\* (x / mins) * 90.0 with mins = minutes.replace(0, pd.NA)
Per90(x, minutes) ==
    IF IsNaN(x) \/ IsNaN(minutes) \/ minutes[1] = 0 THEN NaN
    ELSE Frac(x[1] * minutes[2] * 90, x[2] * minutes[1])

\* df[f"{c}_per90"] = (df[c] / mins) * 90.0 for every c of cols in df.columns
add_per90_features(f, cols) ==
    IF "minutes" \notin f.cols THEN f
    ELSE LET src == Range(cols) \cap f.cols
             names == {Per90Col(c) : c \in src}
         IN  Frame(f.cols \cup names,
                 [i \in DOMAIN f.rows |->
                     [o \in names |->
                         Per90(f.rows[i][CHOOSE c \in src : Per90Col(c) = o],
                               f.rows[i]["minutes"])] @@ f.rows[i]])

\* the variant that waits for a full window: min_periods=window
RollingFullWindow(series, window, include_current) ==
    IF include_current THEN RollingMean(series, window, window)
    ELSE RollingMean(Shift(series, 1), window, window)

\* _rolling(series, window)
Rolling(series, window, include_current) ==
    IF include_current THEN RollingMean(series, window, 1)
    ELSE RollingMean(Shift(series, 1), window, 1)

\* new_cols[name] = grouped[col].transform(...) for every col and window,
\* concatenated to the sorted frame
RollColumns(sorted, roll_cols, windows, include_current) ==
    LET pairs == {<<roll_cols[a], windows[b]>> :
                     a \in DOMAIN roll_cols, b \in DOMAIN windows}
        names == {RollCol(pr[1], pr[2]) : pr \in pairs}
        pair(o) == CHOOSE pr \in pairs : RollCol(pr[1], pr[2]) = o
    IN  Frame(sorted.cols \cup names,
            [i \in DOMAIN sorted.rows |->
                [o \in names |->
                    Rolling(GroupSeries(sorted.rows, "player_id", pair(o)[1], i),
                            pair(o)[2], include_current)
                        [GroupIndex(sorted.rows, "player_id", i)]] @@ sorted.rows[i]])

\* a - b; NaN when either is
SubCells(a, b) ==
    IF IsNaN(a) \/ IsNaN(b) THEN NaN
    ELSE Frac(a[1] * b[2] - b[1] * a[2], a[2] * b[2])

trend_pairs ==
    << <<"event_points", 3, 10>>, <<"expected_goals", 3, 10>>,
       <<"expected_assists", 3, 10>> >>

\* the loop over trend_pairs, from place k on; rolled are the new columns
RECURSIVE TrendLoop(_, _, _)
TrendLoop(f, rolled, k) ==
    IF k > Len(trend_pairs) THEN f
    ELSE LET c_short == RollCol(trend_pairs[k][1], trend_pairs[k][2])
             c_long == RollCol(trend_pairs[k][1], trend_pairs[k][3])
         IN  IF c_short \in rolled /\ c_long \in rolled
             THEN TrendLoop(
                      SetColumn(f,
                          trend_pairs[k][1] \o "_trend_" \o ToString(trend_pairs[k][2])
                              \o "_" \o ToString(trend_pairs[k][3]),
                          [i \in DOMAIN f.rows |->
                              SubCells(f.rows[i][c_short], f.rows[i][c_long])]),
                      rolled, k + 1)
             ELSE TrendLoop(f, rolled, k + 1)

add_player_rolling_features(f, windows, cols, per90, include_current) ==
    LET rolled(roll_cols) ==
            {RollCol(roll_cols[a], windows[b]) :
                a \in DOMAIN roll_cols, b \in DOMAIN windows}
        features(sorted, roll_cols) ==
            TrendLoop(RollColumns(sorted, roll_cols, windows, include_current),
                      rolled(roll_cols), 1)
        \* cols, and with per90 the per-90 columns that were added
        rolling_of(f1, avail) ==
            features(sort_values(f1, <<"player_id", "gw">>),
                     IF per90
                     THEN avail \o SelectSeq([k \in DOMAIN avail |-> Per90Col(avail[k])],
                                             LAMBDA c : c \in f1.cols)
                     ELSE avail)
        with_per90(avail) ==
            rolling_of(IF per90 THEN add_per90_features(f, avail) ELSE f, avail)
    IN  IF "player_id" \notin f.cols \/ "gw" \notin f.cols
        THEN Raised("ValueError", "Missing required columns")
        ELSE with_per90(_available_cols(f, cols))

----------------------------------------------------------------------------
(* src/features/availability_flags.py *)

\* (minutes.fillna(0) <= 0).astype(int)
\* the variant without fillna(0): a missing minutes cell is not a miss
DnpObserved(minutes) == IF ~IsNaN(minutes) /\ minutes[1] <= 0 THEN Num(1) ELSE Num(0)

Dnp(minutes) == IF IsNaN(minutes) \/ minutes[1] <= 0 THEN Num(1) ELSE Num(0)

\* df[name] = df.groupby(id_col, sort=False)[col].transform(rolling ...)
RollingColumn(f, name, col, window_gw, mean) ==
    SetColumn(f, name,
        [i \in DOMAIN f.rows |->
            (IF mean
             THEN RollingMean(GroupSeries(f.rows, "player_id", col, i), window_gw, 1)
             ELSE RollingSum(GroupSeries(f.rows, "player_id", col, i), window_gw, 1))
                [GroupIndex(f.rows, "player_id", i)]])

\* df["status"].astype(str).str.lower().ne("a"); a status cell is <<chars>>
StatusFlag(c) == <<(IF IsNaN(c) THEN <<"n", "a", "n">> ELSE StrLower(c[1])) # <<"a">>>>

\* pd.to_numeric(chance, errors="coerce").fillna(100) < 100
ChanceFlag(c) == <<(IF IsNaN(c) THEN FALSE ELSE CellLess(c, Num(100)))>>

FlagKeepCols ==
    {"player_id", "gw", "missed_last_n", "avg_minutes_last_n", "starts_last_n",
     "status_flag", "chance_flag"}

build_availability_flags(pgw_all, window_gw) ==
    LET renamed(f) == IF "id" \in f.cols /\ "player_id" \notin f.cols
                      THEN RenameColumn(f, "id", "player_id") ELSE f
        dnp(f) == SetColumn(f, "_dnp", [i \in DOMAIN f.rows |-> Dnp(f.rows[i]["minutes"])])
        missed(f) == RollingColumn(f, "missed_last_n", "_dnp", window_gw, FALSE)
        avg_minutes(f) == RollingColumn(f, "avg_minutes_last_n", "minutes", window_gw, TRUE)
        starts(f) == IF "starts" \in f.cols
                     THEN RollingColumn(f, "starts_last_n", "starts", window_gw, FALSE)
                     ELSE f
        status(f) == IF "status" \in f.cols
                     THEN SetColumn(f, "status_flag",
                              [i \in DOMAIN f.rows |-> StatusFlag(f.rows[i]["status"])])
                     ELSE f
        chance(f) == IF "chance_of_playing_next_round" \in f.cols
                     THEN SetColumn(f, "chance_flag",
                              [i \in DOMAIN f.rows |->
                                  ChanceFlag(f.rows[i]["chance_of_playing_next_round"])])
                     ELSE f
        keep(f) == Project(f, FlagKeepCols \cap f.cols)
        flags(f) ==
            IF {"player_id", "gw", "minutes"} \ f.cols # {}
            THEN Raised("ValueError", "Missing required column")
            ELSE keep(chance(status(starts(avg_minutes(missed(dnp(
                     sort_values(f, <<"player_id", "gw">>))))))))
    IN  flags(renamed(pgw_all))

\* the (player_id, gw) keys of a groupby, ascending
RECURSIVE SortedPairs(_)
SortedPairs(K) ==
    IF K = {} THEN <<>>
    ELSE LET m == CHOOSE x \in K : \A y \in K :
                      x[1] < y[1] \/ (x[1] = y[1] /\ x[2] <= y[2])
         IN  <<m>> \o SortedPairs(K \ {m})

PlayerGwKeys(rows) ==
    SortedPairs({<<rows[i]["player_id"], rows[i]["gw"]>> : i \in DOMAIN rows})

\* pm.merge(matches[["match_id", "gw"]], on="match_id", how="left") followed by
\* dropna(subset=["gw"]): every pm row once per match row of its match_id,
\* with that row's gw; pm rows of an unknown match are dropped
JoinGw(pm, matches) ==
    Frame(pm.cols \cup {"gw"},
          Flatten([i \in DOMAIN pm.rows |->
              LET hit == SelectSeq(matches.rows,
                             LAMBDA m : m["match_id"] = pm.rows[i]["match_id"])
              IN  [k \in DOMAIN hit |-> ("gw" :> hit[k]["gw"]) @@ pm.rows[i]]]))

\* the variant that refuses an empty table and adds no rate otherwise
add_substitution_rates_nonempty(base_df, playermatchstats, matches0, window_gw, early_sub_min, sub_on_min) ==
    IF IsEmpty(playermatchstats) \/ IsEmpty(matches0)
    THEN Raised("ValueError", "playermatchstats or matches is empty")
    ELSE base_df

add_substitution_rates(base_df, playermatchstats, matches0, window_gw, early_sub_min, sub_on_min) ==
    LET le(c, n) == ~IsNaN(c) /\ ~CellLess(Num(n), c)
        lt(c, n) == ~IsNaN(c) /\ CellLess(c, Num(n))
        gt(c, n) == ~IsNaN(c) /\ CellLess(Num(n), c)
        \* pm["early_sub"] and pm["sub_on"]
        marked(pm) ==
            SetColumn(SetColumn(pm, "early_sub",
                [i \in DOMAIN pm.rows |->
                    IF /\ le(pm.rows[i]["start_min"], sub_on_min)
                       /\ lt(pm.rows[i]["finish_min"], early_sub_min)
                       /\ gt(pm.rows[i]["minutes_played"], 0)
                    THEN Num(1) ELSE Num(0)]),
                "sub_on",
                [i \in DOMAIN pm.rows |->
                    IF gt(pm.rows[i]["start_min"], sub_on_min)
                    THEN Num(1) ELSE Num(0)])
        \* pm.groupby(["player_id", "gw"]).agg(early_sub_rate=mean, sub_on_rate=mean)
        grp(pm, k) == SelectSeq(pm.rows, LAMBDA r : r["player_id"] = k[1] /\ r["gw"] = k[2])
        mean(g, c) == MeanCells([i \in DOMAIN g |-> g[i][c]])
        rate(k, g) == [player_id |-> k[1], gw |-> k[2],
                       early_sub_rate |-> mean(g, "early_sub"),
                       sub_on_rate |-> mean(g, "sub_on")]
        grouped(pm, keys) ==
            Frame({"player_id", "gw", "early_sub_rate", "sub_on_rate"},
                  [n \in DOMAIN keys |-> rate(keys[n], grp(pm, keys[n]))])
        gw_rates(pm) == grouped(pm, PlayerGwKeys(pm.rows))
        rolling(rates) ==
            RollingColumn(
                RollingColumn(rates, "early_sub_rate_last_n",
                              "early_sub_rate", window_gw, TRUE),
                "sub_on_rate_last_n", "sub_on_rate", window_gw, TRUE)
        merged(rates) ==
            IF "player_id" \notin base_df.cols \/ "gw" \notin base_df.cols
            THEN Raised("KeyError", "player_id, gw")
            ELSE LeftMergeOn(base_df,
                     Project(rates, {"player_id", "gw", "early_sub_rate_last_n",
                                     "sub_on_rate_last_n"}),
                     <<"player_id", "gw">>)
        rates_of(pm) ==
            IF "start_min" \notin pm.cols \/ "finish_min" \notin pm.cols THEN base_df
            ELSE IF "minutes_played" \notin pm.cols THEN Raised("KeyError", "minutes_played")
            ELSE merged(rolling(gw_rates(marked(pm))))
        with_gw(matches) ==
            IF "gw" \notin playermatchstats.cols /\ "gw" \notin matches.cols
            THEN Raised("KeyError", "gw not in index")
            ELSE rates_of(IF "gw" \notin playermatchstats.cols
                          THEN JoinGw(playermatchstats, matches) ELSE playermatchstats)
    IN  IF IsEmpty(playermatchstats) \/ IsEmpty(matches0) THEN base_df
        ELSE IF "match_id" \notin playermatchstats.cols \/ "match_id" \notin matches0.cols
        THEN base_df
        ELSE IF "player_id" \notin playermatchstats.cols THEN base_df
        ELSE with_gw(WithGwAlias(matches0))

----------------------------------------------------------------------------
(* src/features/match_features.py *)

\* _ensure_gw, with pm["gw"].astype(int) of the caller: a pm row left
\* without a gw by the merge makes astype(int) raise
_ensure_gw(pm, matches) ==
    IF "gw" \in pm.cols THEN pm
    ELSE IF IsEmpty(matches) \/ "match_id" \notin pm.cols THEN pm
    ELSE IF "gw" \notin WithGwAlias(matches).cols THEN pm
    ELSE IF "match_id" \notin matches.cols THEN Raised("KeyError", "match_id")
    ELSE IF \E i \in DOMAIN pm.rows : \A j \in DOMAIN matches.rows :
                matches.rows[j]["match_id"] # pm.rows[i]["match_id"]
    THEN Raised("ValueError", "cannot convert float NaN to integer")
    ELSE JoinGw(pm, WithGwAlias(matches))

build_playermatchstats_features(playermatchstats, matches, agg) ==
    LET grp(pm, k) == SelectSeq(pm.rows, LAMBDA r : r["player_id"] = k[1] /\ r["gw"] = k[2])
        ser(g, c) == [i \in DOMAIN g |-> g[i][c]]
        sumcols(cols) == IF "sum" \in agg THEN {("pm_sum_" \o c) : c \in cols} ELSE {}
        meancols(cols) == IF "mean" \in agg THEN {("pm_mean_" \o c) : c \in cols} ELSE {}
        value(k, g, o, cols) ==
            IF o = "player_id" THEN k[1]
            ELSE IF o = "gw" THEN k[2]
            ELSE IF o \in sumcols(cols)
            THEN SumCells(SelectSeq(ser(g, CHOOSE c \in cols : ("pm_sum_" \o c) = o), NotNaN))
            ELSE MeanCells(ser(g, CHOOSE c \in cols : ("pm_mean_" \o c) = o))
        row(k, g, out, cols) == [o \in out |-> value(k, g, o, cols)]
        grouped(pm, keys, out, cols) ==
            Frame(out, [n \in DOMAIN keys |-> row(keys[n], grp(pm, keys[n]), out, cols)])
        agged(pm, cols) ==
            IF cols = {} THEN EmptyFrame
            ELSE IF sumcols(cols) \cup meancols(cols) = {} THEN EmptyFrame
            ELSE grouped(pm, PlayerGwKeys(pm.rows),
                         {"player_id", "gw"} \cup sumcols(cols) \cup meancols(cols), cols)
        features(pm) ==
            IF IsRaised(pm) THEN pm
            ELSE IF "player_id" \notin pm.cols \/ "gw" \notin pm.cols THEN EmptyFrame
            ELSE agged(pm, pm.cols \ {"player_id", "match_id", "gw", "start_min",
                                      "finish_min"})
    IN  IF IsEmpty(playermatchstats) THEN EmptyFrame
        ELSE features(_ensure_gw(playermatchstats, matches))

----------------------------------------------------------------------------
(* src/features/fixture_features.py *)

FxCol(stem, h) == stem \o "_next_" \o ToString(h)

\* the variant whose window starts at the current gameweek
FxHorizonCellsInclusive(team_rows, current_gw, h, has_strength) ==
    LET upcoming == SelectSeq(team_rows,
                        LAMBDA r : r["gw"] >= current_gw /\ r["gw"] <= current_gw + h)
        col(c) == [i \in DOMAIN upcoming |-> upcoming[i][c]]
        count == Len(upcoming)
    IN  (FxCol("fixture_count", h) :> Num(count))
        @@ (FxCol("home_share", h) :>
                (IF count = 0 THEN NaN ELSE MeanCells(col("is_home"))))
        @@ (FxCol("opp_elo_avg", h) :>
                (IF count = 0 THEN NaN ELSE MeanCells(col("opp_elo"))))
        @@ (FxCol("opp_strength_avg", h) :>
                (IF count = 0 \/ ~has_strength THEN NaN
                 ELSE MeanCells(col("opp_strength"))))
        @@ (FxCol("elo_delta_avg", h) :>
                (IF count = 0 THEN NaN ELSE MeanCells(col("elo_delta"))))

\* the cells of one horizon of one (team, current_gw) row
FxHorizonCells(team_rows, current_gw, h, has_strength) ==
    LET upcoming == SelectSeq(team_rows,
                        LAMBDA r : r["gw"] > current_gw /\ r["gw"] <= current_gw + h)
        col(c) == [i \in DOMAIN upcoming |-> upcoming[i][c]]
        count == Len(upcoming)
    IN  (FxCol("fixture_count", h) :> Num(count))
        @@ (FxCol("home_share", h) :>
                (IF count = 0 THEN NaN ELSE MeanCells(col("is_home"))))
        @@ (FxCol("opp_elo_avg", h) :>
                (IF count = 0 THEN NaN ELSE MeanCells(col("opp_elo"))))
        @@ (FxCol("opp_strength_avg", h) :>
                (IF count = 0 \/ ~has_strength THEN NaN
                 ELSE MeanCells(col("opp_strength"))))
        @@ (FxCol("elo_delta_avg", h) :>
                (IF count = 0 THEN NaN ELSE MeanCells(col("elo_delta"))))

\* the loop over horizons of one row, from place k on
RECURSIVE FxRow(_, _, _, _, _, _)
FxRow(row, team_rows, current_gw, horizons, has_strength, k) ==
    IF k > Len(horizons) THEN row
    ELSE FxRow(FxHorizonCells(team_rows, current_gw, horizons[k], has_strength) @@ row,
               team_rows, current_gw, horizons, has_strength, k + 1)

\* sorted(team_fx["team_id"].dropna().unique())
RECURSIVE SortedCells(_)
SortedCells(S) ==
    IF S = {} THEN <<>>
    ELSE LET m == CHOOSE x \in S : \A y \in S : ~CellLess(y, x)
         IN  <<m>> \o SortedCells(S \ {m})

build_team_fixture_difficulty(fixtures, teams_dim, horizons) ==
    LET with_strength == ~IsEmpty(teams_dim) /\ {"id", "strength"} \subseteq teams_dim.cols
        with_elo == ~IsEmpty(teams_dim) /\ {"id", "elo"} \subseteq teams_dim.cols
        opp_strength(f) ==
            IF with_strength
            THEN LeftMergeOn(f,
                     RenameColumn(RenameColumn(Project(teams_dim, {"id", "strength"}),
                                      "id", "opp_id"), "strength", "opp_strength"),
                     <<"opp_id">>)
            ELSE f
        \* team_elo filled from team_elo_dim where it is missing
        filled(m) ==
            DropColumns(
                SetColumn(m, "team_elo",
                    [i \in DOMAIN m.rows |->
                        IF IsNaN(m.rows[i]["team_elo"])
                        THEN m.rows[i]["team_elo_dim"]
                        ELSE m.rows[i]["team_elo"]]),
                {"team_elo_dim"})
        team_elo(f) ==
            IF with_elo
            THEN filled(LeftMergeOn(f,
                            RenameColumn(RenameColumn(Project(teams_dim, {"id", "elo"}),
                                             "id", "team_id"), "elo", "team_elo_dim"),
                            <<"team_id">>))
            ELSE f
        elo_delta(f) ==
            SetColumn(f, "elo_delta",
                [i \in DOMAIN f.rows |->
                    SubCells(f.rows[i]["team_elo"], f.rows[i]["opp_elo"])])
        rowOf(team_fx, team_id, current_gw) ==
            FxRow([team_id |-> team_id, gw |-> current_gw],
                  SelectSeq(team_fx.rows, LAMBDA r : r["team_id"] = team_id),
                  current_gw, horizons, "opp_strength" \in team_fx.cols, 1)
        \* one row per team of teams and gameweek of min_gw..max_gw
        grid(team_fx, teams, min_gw, span) ==
            IF teams = <<>> THEN EmptyFrame
            ELSE Frame({"team_id", "gw"} \cup
                           {FxCol(stem, horizons[k]) :
                                stem \in {"fixture_count", "home_share", "opp_elo_avg",
                                          "opp_strength_avg", "elo_delta_avg"},
                                k \in DOMAIN horizons},
                       [n \in 1..(Len(teams) * span) |->
                           rowOf(team_fx, teams[((n - 1) \div span) + 1],
                                 min_gw + ((n - 1) % span))])
        over(team_fx, gws) ==
            grid(team_fx,
                 SortedCells({team_fx.rows[i]["team_id"] : i \in DOMAIN team_fx.rows}
                                 \ {NaN}),
                 SetMin(gws), SetMax(gws) - SetMin(gws) + 1)
        difficulty(team_fx) ==
            over(team_fx, {team_fx.rows[i]["gw"] : i \in DOMAIN team_fx.rows})
        checked(fx) ==
            IF {"gw", "home_team", "away_team", "home_team_elo", "away_team_elo"} \ fx.cols # {}
            THEN Raised("ValueError", "fixtures missing columns")
            ELSE difficulty(elo_delta(team_elo(opp_strength(TeamMatchRows(fx)))))
    IN  IF IsEmpty(fixtures) THEN EmptyFrame
        ELSE checked(WithGwAlias(fixtures))

----------------------------------------------------------------------------
(* src/io/schema.py *)

TableOrder ==
    <<"teams", "players", "matches", "fixtures", "player_gameweek_stats",
      "playerstats", "playermatchstats">>

MatchColumns ==
    <<"gameweek", "home_team", "away_team", "home_team_elo", "away_team_elo",
      "finished", "match_id">>

StatColumns ==
    <<"id", "gw", "minutes", "event_points", "expected_goals", "expected_assists",
      "defensive_contribution">>

\* the required columns of every table, each list in the order of the source
REQUIRED_COLUMNS ==
    [teams |-> <<"code", "id", "name", "strength", "elo">>,
     players |-> <<"player_id", "web_name", "team_code", "position">>,
     matches |-> MatchColumns,
     fixtures |-> MatchColumns,
     player_gameweek_stats |-> StatColumns,
     playerstats |-> StatColumns,
     playermatchstats |-> <<"player_id", "match_id", "minutes_played">>]

\* the result of a call that returns None
None == [none |-> TRUE]

\* ValueError(f"Missing columns in {table}: {missing}")
MissingColumns(table, missing) ==
    [raised |-> "ValueError", msg |-> "Missing columns in " \o table,
     missing |-> missing]

\* the variant that reports the first missing column alone
validate_columns_first(f, required, table) ==
    IF SelectSeq(required, LAMBDA c : c \notin f.cols) # <<>>
    THEN MissingColumns(table, <<Head(SelectSeq(required, LAMBDA c : c \notin f.cols))>>)
    ELSE None

validate_columns(f, required, table) ==
    IF SelectSeq(required, LAMBDA c : c \notin f.cols) # <<>>
    THEN MissingColumns(table, SelectSeq(required, LAMBDA c : c \notin f.cols))
    ELSE None

\* the loop of validate_all over REQUIRED_COLUMNS, from place k on
RECURSIVE ValidateFrom(_, _)
ValidateFrom(tbl, k) ==
    IF k > Len(TableOrder) THEN None
    ELSE IF TableOrder[k] \notin DOMAIN tbl
    THEN Raised("ValueError", "Missing table in load output: " \o TableOrder[k])
    ELSE IF IsRaised(validate_columns(tbl[TableOrder[k]],
                                      REQUIRED_COLUMNS[TableOrder[k]], TableOrder[k]))
    THEN validate_columns(tbl[TableOrder[k]],
                          REQUIRED_COLUMNS[TableOrder[k]], TableOrder[k])
    ELSE ValidateFrom(tbl, k + 1)

validate_all(tbl) == ValidateFrom(tbl, 1)

----------------------------------------------------------------------------
(* src/pipelines/build_dataset.py: the feature, training and prediction frames *)

\* features.merge(right, on=on, how="left") where right may lack a key column;
\* an exception raised while either frame was built propagates
MergeOnKeys(features, right, on) ==
    IF IsRaised(features) THEN features
    ELSE IF IsRaised(right) THEN right
    ELSE IF Range(on) \ right.cols # {} \/ Range(on) \ features.cols # {}
    THEN Raised("KeyError", on[1])
    ELSE LeftMergeOn(features, right, on)

\* the steps that build_training_dataset and build_feature_dataset share:
\* rolling features, availability flags, substitution rates, match aggregates
FeatureSteps(tbl, index, rolling_windows, min_minutes, include_sub_rates) ==
    LET flags_src == IF IsEmpty(tbl["player_gameweek_stats"]) THEN tbl["playerstats"]
                     ELSE tbl["player_gameweek_stats"]
        rolling(base) ==
            IF IsRaised(base) THEN base
            ELSE add_player_rolling_features(base, rolling_windows,
                     DEFAULT_ROLLING_COLS, TRUE, TRUE)
        flags(features) ==
            IF IsRaised(features) \/ IsEmpty(flags_src) THEN features
            ELSE MergeOnKeys(features,
                     build_availability_flags(flags_src, PyMax(rolling_windows)),
                     <<"player_id", "gw">>)
        sub_rates(features) ==
            IF IsRaised(features) \/ ~include_sub_rates THEN features
            ELSE add_substitution_rates(features, tbl["playermatchstats"],
                     tbl["matches"], PyMax(rolling_windows), 70, 1)
        merge_pm(features, pm_features) ==
            IF IsRaised(pm_features) THEN pm_features
            ELSE IF IsEmpty(pm_features) THEN features
            ELSE MergeOnKeys(features, pm_features, <<"player_id", "gw">>)
        match_aggregates(features) ==
            IF IsRaised(features) \/ IsEmpty(tbl["playermatchstats"]) THEN features
            ELSE merge_pm(features,
                     build_playermatchstats_features(tbl["playermatchstats"],
                         tbl["matches"], {"sum", "mean"}))
    IN  match_aggregates(sub_rates(flags(rolling(
            build_base_dataset(tbl, index, min_minutes)))))

\* the labeled frame of the features, without the mask
LabeledFeatures(features, horizons) ==
    IF IsRaised(features) THEN features
    ELSE add_horizon_labels(features, horizons, DEFAULT_TARGET_MAP, FALSE)

\* the variant that returns the labeled frame without the mask
build_training_dataset_unmasked(tbl, index, rolling_windows, horizons, min_minutes, include_sub_rates) ==
    LabeledFeatures(FeatureSteps(tbl, index, rolling_windows, min_minutes,
                                 include_sub_rates), horizons)

build_training_dataset(tbl, index, rolling_windows, horizons, min_minutes, include_sub_rates) ==
    LET \* labeled[mask]
        kept(labeled, mask) ==
            Frame(labeled.cols,
                  Flatten([i \in DOMAIN labeled.rows |->
                      IF mask[i] THEN <<labeled.rows[i]>> ELSE <<>>]))
        masked(labeled) ==
            IF IsRaised(labeled) THEN labeled
            ELSE IF "gw" \notin labeled.cols THEN Raised("ValueError", "Missing column: gw")
            ELSE kept(labeled, labelable_mask(labeled, index.max_finished_gw, horizons))
    IN  masked(LabeledFeatures(FeatureSteps(tbl, index, rolling_windows, min_minutes,
                                            include_sub_rates), horizons))

build_feature_dataset(tbl, index, rolling_windows, min_minutes, include_sub_rates) ==
    LET teams_dim(teams) ==
            IF "gw" \in teams.cols
            THEN DropDuplicatesLast(sort_values(teams, <<"gw">>), "code")
            ELSE teams
        fixtures(features) ==
            IF IsRaised(features) \/ IsEmpty(tbl["fixtures"]) THEN features
            ELSE MergeOnKeys(features,
                     build_team_fixture_difficulty(tbl["fixtures"],
                         teams_dim(tbl["teams"]), <<1, 5, 10, 15>>),
                     <<"team_id", "gw">>)
    IN  fixtures(FeatureSteps(tbl, index, rolling_windows, min_minutes,
                              include_sub_rates))

\* the variant that keeps every gameweek up to the latest finished one
build_prediction_dataset_all_gws(tbl, index, rolling_windows, min_minutes, include_sub_rates) ==
    build_feature_dataset(tbl, index, rolling_windows, min_minutes, include_sub_rates)

build_prediction_dataset(tbl, index, rolling_windows, min_minutes, include_sub_rates) ==
    LET latest(features) ==
            IF IsRaised(features) THEN features
            ELSE Frame(features.cols,
                       SelectSeq(features.rows,
                           LAMBDA r : r["gw"] = index.max_finished_gw))
    IN  latest(build_feature_dataset(tbl, index, rolling_windows, min_minutes,
                                     include_sub_rates))

----------------------------------------------------------------------------
(* Inputs of the finished-gameweek index: match tables *)

FinishedCells == {PyBool(TRUE), PyBool(FALSE)}

\* the finished flags of the match rows of one gameweek
FlagSeqs == UNION {[1..n -> FinishedCells] : n \in 0..MaxMatchesPerGw}

Reverse(s) == [i \in DOMAIN s |-> s[Len(s) + 1 - i]]

\* a row of matches.csv of gameweek g as load_all_gws returns it: with the gw
\* tag of its directory when add_gw is set
MatchRow(g, fin, add_gw) ==
    IF add_gw THEN [gw |-> g, gameweek |-> g, finished |-> fin]
    ELSE [gameweek |-> g, finished |-> fin]

RECURSIVE MatchRows(_, _, _)
MatchRows(flags, g, add_gw) ==
    IF g = 0 THEN <<>>
    ELSE MatchRows(flags, g - 1, add_gw)
         \o [i \in DOMAIN flags[g] |-> MatchRow(g, flags[g][i], add_gw)]

MatchCols(add_gw) ==
    IF add_gw THEN {"gw", "gameweek", "finished"} ELSE {"gameweek", "finished"}

\* the match tables of gameweeks 1..n, flags[g] the flags of the rows of g
MatchTable(flags, n, add_gw, descending) ==
    LET rows == MatchRows(flags, n, add_gw)
    IN  Frame(MatchCols(add_gw), IF descending THEN Reverse(rows) ELSE rows)

NoIndex == FinishedGwIndex(<<>>, -1)

InitIndex ==
    /\ pc = "start"
    /\ \E flags \in [1..IdxMaxGw -> FlagSeqs], add_gw \in BOOLEAN, desc \in BOOLEAN :
           tables = [matches |-> MatchTable(flags, IdxMaxGw, add_gw, desc)]
    /\ cfg = [horizons |-> <<>>]
    /\ df = EmptyFrame
    /\ finished_index = NoIndex
    /\ data = EmptyFrame
    /\ earlier = EmptyFrame

\* compute_finished_gws(tables["matches"])
ComputeIndex ==
    /\ pc = "start"
    /\ finished_index' = compute_finished_gws(tables["matches"])
    /\ pc' = "index"
    /\ UNCHANGED <<tables, cfg, df, data, earlier>>

SpecIndex == InitIndex /\ [][ComputeIndex]_vars

----------------------------------------------------------------------------
(* C1, C10 *)

MatchRowsOf(g) ==
    {i \in DOMAIN tables["matches"].rows :
        tables["matches"].rows[i][IF "gw" \in tables["matches"].cols
                                  THEN "gw" ELSE "gameweek"] = g}

\* C1: after compute_finished_gws, a gameweek g is in finished_gws if and
\* only if the match table has at least one row tagged g and every row
\* tagged g has a truthy finished flag.
C1_FinishedIff ==
    pc = "index" =>
        \A g \in 0..(IdxMaxGw + 1) :
            (g \in Range(finished_index.finished_gws))
            <=> /\ MatchRowsOf(g) # {}
                /\ \A i \in MatchRowsOf(g) :
                       tables["matches"].rows[i]["finished"] = PyBool(TRUE)

\* a gameweek with a finished and an unfinished match, beside a finished one
C1_Witness ==
    /\ pc = "index"
    /\ \E g \in 1..IdxMaxGw :
          /\ g \notin Range(finished_index.finished_gws)
          /\ \E i, j \in MatchRowsOf(g) :
                /\ tables["matches"].rows[i]["finished"] = PyBool(TRUE)
                /\ tables["matches"].rows[j]["finished"] = PyBool(FALSE)
    /\ \E g \in 1..IdxMaxGw : MatchRowsOf(g) = {}
    /\ finished_index.finished_gws # <<>>

\* C10: max_finished_gw is the largest element of finished_gws, or 0 when
\* no gameweek qualifies, and no error is raised; finished_gws is strictly
\* ascending (so without duplicates).
C10_MaxFinished ==
    pc = "index" =>
        /\ ~IsRaised(finished_index)
        /\ LET f == finished_index.finished_gws IN
              /\ \A i, j \in DOMAIN f : i < j => f[i] < f[j]
              /\ f = <<>> => finished_index.max_finished_gw = 0
              /\ f # <<>> =>
                    /\ finished_index.max_finished_gw \in Range(f)
                    /\ \A i \in DOMAIN f : f[i] <= finished_index.max_finished_gw

\* two or more finished gameweeks listed from a table read in descending order
C10_Witness ==
    /\ pc = "index"
    /\ Len(finished_index.finished_gws) >= 2
    /\ Len(tables["matches"].rows) >= 2
    /\ tables["matches"].rows[1]["gameweek"] > tables["matches"].rows[2]["gameweek"]

----------------------------------------------------------------------------
(* The label builder called on a frame *)

LabHorizons == {<<1>>, <<2>>, <<1, 3>>}

\* what a player's row of gameweek g may be: absent, or present with
\* event_points missing, 2 * g or 1
RowKinds == {"absent", "nan", "double", "one"}

PointsOf(kind, g) ==
    CASE kind = "nan" -> NaN
      [] kind = "double" -> Num(2 * g)
      [] kind = "one" -> Num(1)

FactCols == {"player_id", "gw", "event_points"}

FactRow(p, g, pts) == [player_id |-> p, gw |-> g, event_points |-> pts]

\* the rows of player p: one per gameweek g with series[g] # "absent"
RECURSIVE PlayerRows(_, _, _)
PlayerRows(p, series, g) ==
    IF g = 0 THEN <<>>
    ELSE PlayerRows(p, series, g - 1)
         \o (IF series[g] = "absent" THEN <<>>
             ELSE <<FactRow(p, g, PointsOf(series[g], g))>>)

\* the second player: a row in every gameweek, 100 points each
OtherRows(n) == [g \in 1..n |-> FactRow(2, g, Num(100))]

InitLabels ==
    /\ pc = "start"
    /\ tables = [matches |-> EmptyFrame]
    /\ \E hs \in LabHorizons : cfg = [horizons |-> hs]
    /\ \E series \in [1..LabMaxGw -> RowKinds], other \in BOOLEAN, desc \in BOOLEAN :
             LET rows == PlayerRows(1, series, LabMaxGw)
                         \o (IF other THEN OtherRows(LabMaxGw) ELSE <<>>)
             IN  df = Frame(FactCols, IF desc THEN Reverse(rows) ELSE rows)
    /\ finished_index = NoIndex
    /\ data = EmptyFrame
    /\ earlier = EmptyFrame

\* add_horizon_labels(df, horizons=horizons, require_all=False)
AddLabels ==
    /\ pc = "start"
    /\ data' = add_horizon_labels(df, cfg.horizons, DEFAULT_TARGET_MAP, FALSE)
    /\ pc' = "labels"
    /\ UNCHANGED <<tables, cfg, df, finished_index, earlier>>

SpecLabels == InitLabels /\ [][AddLabels]_vars

\* the rows of frame f of player p with gw in lo..hi
RowsIn(f, p, lo, hi) ==
    SelectSeq(f.rows,
        LAMBDA r : r["player_id"] = p /\ lo <= r["gw"] /\ r["gw"] <= hi)

\* the sum of the observed event_points of the rows of p with gw in lo..hi
PointsIn(f, p, lo, hi) ==
    SumCells(SelectSeq([i \in DOMAIN RowsIn(f, p, lo, hi) |->
                           RowsIn(f, p, lo, hi)[i]["event_points"]], NotNaN))

HorizonSet == Range(cfg.horizons)

\* C2: a defined <target>_next_<h>_total of the row at (player, g) is the
\* sum of the source column over the player's rows of gameweeks g+1 .. g+h.
C2_TotalOverGameweeks ==
    pc = "labels" =>
        \A i \in DOMAIN data.rows : \A h \in HorizonSet :
            LET r == data.rows[i] IN
            ~IsNaN(r[TotalCol("points", h)]) =>
                r[TotalCol("points", h)]
                    = PointsIn(df, r["player_id"], r["gw"] + 1, r["gw"] + h)

\* the spec's example: event_points 2, 4, 6, 8, 10 at gameweeks 1..5
ExampleSeries ==
    /\ Len(RowsIn(df, 1, 1, LabMaxGw)) = 5
    /\ \A g \in 1..5 :
          \E i \in DOMAIN df.rows : df.rows[i] = FactRow(1, g, Num(2 * g))

LabelOf(p, g, col) ==
    LET i == CHOOSE i \in DOMAIN data.rows :
                 data.rows[i]["player_id"] = p /\ data.rows[i]["gw"] = g
    IN  data.rows[i][col]

\* C8: when fewer than h rows of the player follow the row at gameweek g, its
\* horizon-h total and per-week labels are NaN; for event_points 2, 4, 6, 8,
\* 10 at gameweeks 1..5, next_2_total is 10 at gw 1 and NaN at gw 4 and gw 5.
C8_TailUndefined ==
    pc = "labels" =>
        /\ \A i \in DOMAIN data.rows : \A h \in HorizonSet :
              LET r == data.rows[i] IN
              Len(RowsIn(df, r["player_id"], r["gw"] + 1, LabMaxGw + 1)) < h =>
                  /\ IsNaN(r[TotalCol("points", h)])
                  /\ IsNaN(r[PerWeekCol("points", h)])
        /\ (ExampleSeries /\ 2 \in HorizonSet) =>
              /\ LabelOf(1, 1, "points_next_2_total") = Num(10)
              /\ LabelOf(1, 4, "points_next_2_total") = NaN
              /\ LabelOf(1, 5, "points_next_2_total") = NaN

C8_Witness ==
    /\ pc = "labels"
    /\ ExampleSeries
    /\ cfg.horizons = <<2>>
    /\ LabelOf(1, 1, "points_next_2_total") = Num(10)
    /\ LabelOf(1, 2, "points_next_2_per_week") = Num(7)
    /\ LabelOf(1, 4, "points_next_2_total") = NaN

----------------------------------------------------------------------------
(* The labelable mask called on a frame *)

MaskHorizons == {<<>>, <<1>>, <<1, 5>>, <<5, 1>>, <<2, 3>>}

InitMask ==
    /\ pc = "start"
    /\ tables = [matches |-> EmptyFrame]
    /\ \E hs \in MaskHorizons : cfg = [horizons |-> hs]
    /\ \E a \in 1..MaskMaxGw, b \in 1..MaskMaxGw :
          df = Frame({"player_id", "gw"},
                     <<[player_id |-> 1, gw |-> a], [player_id |-> 2, gw |-> b]>>)
    /\ \E m \in 0..MaskMaxFinished :
          finished_index = FinishedGwIndex([i \in 1..m |-> i], m)
    /\ data = EmptyFrame
    /\ earlier = EmptyFrame

\* labelable_mask(df, max_finished_gw, horizons)
ApplyMask ==
    /\ pc = "start"
    /\ data' = labelable_mask(df, finished_index.max_finished_gw, cfg.horizons)
    /\ pc' = "mask"
    /\ UNCHANGED <<tables, cfg, df, finished_index, earlier>>

SpecMask == InitMask /\ [][ApplyMask]_vars

MaxHorizon == IF HorizonSet = {} THEN 0 ELSE SetMax(HorizonSet)

MaskIffRule ==
    \A i \in DOMAIN df.rows :
        data[i] <=> df.rows[i]["gw"] <= finished_index.max_finished_gw - MaxHorizon

\* C7 as stated: a row is labelable iff gw <= max_finished_gw - max(horizons)
\* (0 for no horizon); with max_finished_gw 10 and horizons [1,5] a row at
\* gw 6 is labelable and a row at gw 7 is not.
C7_AsStated ==
    pc = "mask" =>
        /\ MaskIffRule
        /\ (finished_index.max_finished_gw = 10 /\ cfg.horizons = <<1, 5>>) =>
              \A i \in DOMAIN df.rows :
                  /\ df.rows[i]["gw"] = 6 => data[i]
                  /\ df.rows[i]["gw"] = 7 => ~data[i]

\* C7 amended: a row is labelable iff gw <= max_finished_gw - max(horizons)
\* (0 for no horizon); with max_finished_gw 10 and horizons [1,5] a row at
\* gw 5 is labelable and a row at gw 6 is not.
C7_MaskRule ==
    pc = "mask" =>
        /\ MaskIffRule
        /\ (finished_index.max_finished_gw = 10 /\ cfg.horizons = <<1, 5>>) =>
              \A i \in DOMAIN df.rows :
                  /\ df.rows[i]["gw"] = 5 => data[i]
                  /\ df.rows[i]["gw"] = 6 => ~data[i]

C7_Witness ==
    /\ pc = "mask"
    /\ finished_index.max_finished_gw = 10
    /\ cfg.horizons = <<1, 5>>
    /\ df.rows[1]["gw"] = 5 /\ data[1]
    /\ df.rows[2]["gw"] = 6 /\ ~data[2]

----------------------------------------------------------------------------
(* The pipelines run on loaded tables *)

\* One snapshot directory GWg holds: teams.csv and players.csv (the
\* dimensions as of g), matches.csv and fixtures.csv, and the player facts
\* of g.  load_tables tags every row with gw = g.  Two teams, two players;
\* player 2 plays every gameweek for team 2.

TeamsSnapshot(g, strength1) ==
    << [gw |-> g, code |-> Num(11), id |-> Num(1), name |-> <<"T1">>,
        strength |-> Num(strength1), elo |-> Num(1600)],
       [gw |-> g, code |-> Num(12), id |-> Num(2), name |-> <<"T2">>,
        strength |-> Num(2), elo |-> Num(1500)] >>

PlayersSnapshot(g, code1) ==
    << [gw |-> g, player_id |-> 1, web_name |-> <<"P1">>, team_code |-> Num(code1),
        position |-> <<IF code1 = 11 THEN "MID" ELSE "FWD">>],
       [gw |-> g, player_id |-> 2, web_name |-> <<"P2">>, team_code |-> Num(12),
        position |-> <<"DEF">>] >>

MatchSnapshot(g, fin) ==
    << [gw |-> g, gameweek |-> g, home_team |-> Num(1), away_team |-> Num(2),
        home_team_elo |-> Num(1600), away_team_elo |-> Num(1500),
        finished |-> PyBool(fin), match_id |-> 100 + g] >>

FixtureSnapshot(g) ==
    << [gw |-> g, gameweek |-> g + 1, home_team |-> Num(2), away_team |-> Num(1),
        home_team_elo |-> Num(1500), away_team_elo |-> NaN,
        finished |-> PyBool(FALSE), match_id |-> 101 + g] >>

StatRow(p, g, minutes, points) ==
    [gw |-> g, id |-> p, minutes |-> Num(minutes), event_points |-> Num(points),
     expected_goals |-> Frac(points, 4), expected_assists |-> Num(0),
     defensive_contribution |-> Num(g)]

\* the facts of gameweek g: player 1 scores 2^g when it plays, player 2 100 + g
StatsSnapshot(g, kind) ==
    (IF kind = "absent" THEN <<>>
     ELSE IF kind = "dnp" THEN <<StatRow(1, g, 0, 0)>>
     ELSE <<StatRow(1, g, 60, 2 ^ g)>>)
    \o <<StatRow(2, g, 90, 100 + g)>>

PmRow(p, g, start, finish) ==
    [gw |-> g, player_id |-> p, match_id |-> 100 + g,
     minutes_played |-> Num(finish - start), start_min |-> Num(start),
     finish_min |-> Num(finish), touches |-> Num(10 * g + p)]

PmSnapshot(g, kind) ==
    (IF kind = "played" THEN <<PmRow(1, g, 0, 60)>> ELSE <<>>)
    \o <<PmRow(2, g, 0, 90)>>

\* the tables of one snapshot directory
Snapshot(g, fin, kind, code1, strength1, extras) ==
    [teams |-> TeamsSnapshot(g, strength1),
     players |-> PlayersSnapshot(g, code1),
     matches |-> MatchSnapshot(g, fin),
     fixtures |-> IF extras THEN FixtureSnapshot(g) ELSE <<>>,
     player_gameweek_stats |-> StatsSnapshot(g, kind),
     playerstats |-> <<>>,
     playermatchstats |-> IF extras THEN PmSnapshot(g, kind) ELSE <<>>]

\* load_all_gws: the frames of the snapshots concatenated; a table that is
\* empty in every snapshot keeps the columns of its file, without the gw tag
\* (the player facts carry a gw column of their own)
NoTables ==
    [teams |-> Frame({"gw"} \cup Range(REQUIRED_COLUMNS["teams"]), <<>>),
     players |-> Frame({"gw"} \cup Range(REQUIRED_COLUMNS["players"]), <<>>),
     matches |-> Frame({"gw"} \cup Range(MatchColumns), <<>>),
     fixtures |-> Frame(Range(MatchColumns), <<>>),
     player_gameweek_stats |-> Frame(Range(StatColumns), <<>>),
     playerstats |-> Frame(Range(StatColumns), <<>>),
     playermatchstats |-> Frame(Range(REQUIRED_COLUMNS["playermatchstats"])
                                     \cup {"start_min", "finish_min", "touches"}, <<>>)]

AppendSnapshot(tbl, snap) ==
    [t \in DOMAIN tbl |->
        IF snap[t] = <<>> THEN tbl[t]
        ELSE Frame(tbl[t].cols \cup {"gw"}, tbl[t].rows \o snap[t])]

\* the tables of snapshots 1..g: gameweeks in finished are finished, player 1
\* misses gameweek gap (kind says how), moves to team 2 at snapshot switch,
\* and team 1's strength rises with the snapshot when drift
RECURSIVE load_tables(_, _, _, _, _, _, _)
load_tables(g, finished, gap, kind, switch, drift, extras) ==
    IF g = 0 THEN NoTables
    ELSE AppendSnapshot(
             load_tables(g - 1, finished, gap, kind, switch, drift, extras),
             Snapshot(g, g \in finished,
                      IF g = gap THEN kind ELSE "played",
                      IF g >= switch THEN 12 ELSE 11,
                      IF drift THEN 2 + g ELSE 3,
                      extras))

\* gameweeks 1..f finished (f >= 2), or every gameweek but 2
FinishedPatterns(n) == {1..f : f \in 2..n} \cup {(1..n) \ {2}}

DefaultWindows == <<3, 5, 10>>

Init ==
    /\ pc = "start"
    /\ \E finished \in FinishedPatterns(PipeMaxGw), gap \in 0..PipeMaxGw,
          kind \in {"absent", "dnp"}, switch \in {3, PipeMaxGw + 1},
          drift \in BOOLEAN, extras \in BOOLEAN :
           /\ gap = 0 => kind = "absent"
           /\ tables = load_tables(PipeMaxGw, finished, gap, kind, switch, drift, extras)
    /\ \E hs \in {<<1>>, <<2>>, <<1, 2>>} :
           cfg = [horizons |-> hs, rolling_windows |-> DefaultWindows]
    /\ df = EmptyFrame
    /\ finished_index = NoIndex
    /\ data = EmptyFrame
    /\ earlier = EmptyFrame

\* what a run returns: the frame and the index, or the exception
RunResult(tbl, frame, index) ==
    IF IsRaised(frame) THEN frame ELSE [data |-> frame, finished_index |-> index]

load_and_build_base(tbl, min_minutes) ==
    LET v == validate_all(tbl)
        index == compute_finished_gws(tbl["matches"])
    IN  IF IsRaised(v) THEN v
        ELSE IF IsRaised(index) THEN index
        ELSE RunResult(tbl, build_base_dataset(tbl, index, min_minutes), index)

\* the variant that computes the index before it validates
load_and_build_training_index_first(tbl, rolling_windows, horizons, min_minutes, include_sub_rates) ==
    LET index == compute_finished_gws(tbl["matches"])
        v == validate_all(tbl)
    IN  IF IsRaised(index) THEN index
        ELSE IF IsRaised(v) THEN v
        ELSE RunResult(tbl,
                 build_training_dataset(tbl, index, rolling_windows, horizons,
                                        min_minutes, include_sub_rates),
                 index)

load_and_build_training(tbl, rolling_windows, horizons, min_minutes, include_sub_rates) ==
    LET v == validate_all(tbl)
        index == compute_finished_gws(tbl["matches"])
    IN  IF IsRaised(v) THEN v
        ELSE IF IsRaised(index) THEN index
        ELSE RunResult(tbl,
                 build_training_dataset(tbl, index, rolling_windows, horizons,
                                        min_minutes, include_sub_rates),
                 index)

\* predict_next.main up to the prediction frame
predict_next(tbl, rolling_windows, min_minutes, include_sub_rates) ==
    LET v == validate_all(tbl)
        index == compute_finished_gws(tbl["matches"])
    IN  IF IsRaised(v) THEN v
        ELSE IF IsRaised(index) THEN index
        ELSE RunResult(tbl,
                 build_prediction_dataset(tbl, index, rolling_windows, min_minutes,
                                          include_sub_rates),
                 index)

\* the run ends: its frame and index, or its exception in data
Finish(result, at) ==
    /\ pc' = at
    /\ data' = IF IsRaised(result) THEN result ELSE result.data
    /\ finished_index' = IF IsRaised(result) THEN NoIndex ELSE result.finished_index
    /\ UNCHANGED <<tables, cfg, df, earlier>>

LoadAndBuildBase ==
    /\ pc = "start"
    /\ Finish(load_and_build_base(tables, 1), "base")

LoadAndBuildTraining ==
    /\ pc = "start"
    /\ Finish(load_and_build_training(tables, cfg.rolling_windows, cfg.horizons,
                                      1, TRUE), "training")

PredictNext ==
    /\ pc = "start"
    /\ Finish(predict_next(tables, cfg.rolling_windows, 0, TRUE), "prediction")

\* build_feature_dataset on the loaded tables, as the prediction pipeline
\* calls it, next to the base dataset of the same tables
BuildFeatures ==
    /\ pc = "start"
    /\ LET index == compute_finished_gws(tables["matches"]) IN
           /\ ~IsRaised(validate_all(tables)) /\ ~IsRaised(index)
           /\ earlier' = build_base_dataset(tables, index, 0)
           /\ data' = build_feature_dataset(tables, index, cfg.rolling_windows, 0, TRUE)
           /\ finished_index' = index
    /\ pc' = "features"
    /\ UNCHANGED <<tables, cfg, df>>

Next == LoadAndBuildBase \/ LoadAndBuildTraining \/ PredictNext \/ BuildFeatures

Spec == Init /\ [][Next]_vars

----------------------------------------------------------------------------
(* C3, C4, C6, C9 *)

FactTable == tables["player_gameweek_stats"]

\* the player has a row at gameweek g in the fact table
HasFact(p, g) ==
    \E i \in DOMAIN FactTable.rows :
        FactTable.rows[i]["id"] = p /\ FactTable.rows[i]["gw"] = g

\* the label columns of horizon h that the frame holds
LabelColsOf(f, h) ==
    {c \in f.cols : \E t \in DOMAIN DEFAULT_TARGET_MAP :
        c \in {TotalCol(DEFAULT_TARGET_MAP[t][1], h),
               PerWeekCol(DEFAULT_TARGET_MAP[t][1], h)}}

\* C3: in the labeled training frame the horizon-h label of a row at
\* (player, g) is defined only if the player has a row at each of the
\* gameweeks g+1 .. g+h and each of them is in finished_gws.
C3_LabelOnlyIfPresentAndFinished ==
    (pc = "training" /\ ~IsRaised(data)) =>
        \A i \in DOMAIN data.rows : \A k \in DOMAIN cfg.horizons :
            \A c \in LabelColsOf(data, cfg.horizons[k]) :
                ~IsNaN(data.rows[i][c]) =>
                    \A g \in (data.rows[i]["gw"] + 1)..(data.rows[i]["gw"] + cfg.horizons[k]) :
                        /\ HasFact(data.rows[i]["player_id"], g)
                        /\ g \in Range(finished_index.finished_gws)

\* the latest row of a dimension table (key column = key value) among the
\* snapshots tagged at or before gameweek g
AsOf(table, key_col, key, g) ==
    LET at == {i \in DOMAIN table.rows :
                  table.rows[i][key_col] = key /\ table.rows[i]["gw"] <= g}
    IN  table.rows[CHOOSE i \in at : \A j \in at : table.rows[j]["gw"] <= table.rows[i]["gw"]]

\* C4: in the base dataset the player attributes (team_code, position) and
\* the team attributes (strength, elo) joined onto a row at gameweek g are
\* those of the latest snapshot with gw at or before g.
C4_DimensionsAsOf ==
    (pc = "base" /\ ~IsRaised(data)) =>
        \A i \in DOMAIN data.rows :
            LET r == data.rows[i]
                player == AsOf(tables["players"], "player_id", r["player_id"], r["gw"])
                team == AsOf(tables["teams"], "code", player["team_code"], r["gw"])
            IN  /\ r["team_code"] = player["team_code"]
                /\ r["position"] = player["position"]
                /\ r["team_strength"] = team["strength"]
                /\ r["team_elo"] = team["elo"]

\* C6: every row of the training frame satisfies gw + h <= max_finished_gw
\* for every configured horizon h; with gameweeks 1-3 finished, gameweek 4
\* unfinished and horizon 2, only rows of gameweek 1 remain.
C6_TrainingRowsLabelable ==
    pc = "training" =>
        /\ ~IsRaised(data)
        /\ \A i \in DOMAIN data.rows : \A k \in DOMAIN cfg.horizons :
               data.rows[i]["gw"] + cfg.horizons[k] <= finished_index.max_finished_gw
        /\ (finished_index.finished_gws = <<1, 2, 3>> /\ cfg.horizons = <<2>>) =>
               \A i \in DOMAIN data.rows : data.rows[i]["gw"] = 1

C6_Witness ==
    /\ pc = "training"
    /\ finished_index.finished_gws = <<1, 2, 3>>
    /\ \E i \in DOMAIN tables["matches"].rows :
           /\ tables["matches"].rows[i]["gw"] = 4
           /\ tables["matches"].rows[i]["finished"] = PyBool(FALSE)
    /\ \E i \in DOMAIN FactTable.rows :
           FactTable.rows[i]["gw"] = 2 /\ FactTable.rows[i]["minutes"] = Num(90)
    /\ cfg.horizons = <<2>>
    /\ data.rows # <<>>
    /\ \A i \in DOMAIN data.rows : data.rows[i]["gw"] = 1

\* every column name the label builder can give a label of horizon 1..15
AllLabelCols ==
    UNION {{TotalCol(DEFAULT_TARGET_MAP[t][1], h), PerWeekCol(DEFAULT_TARGET_MAP[t][1], h)} :
              t \in DOMAIN DEFAULT_TARGET_MAP, h \in 1..15}

\* C9: the prediction frame holds only rows whose gw is max_finished_gw, has
\* no label column, and is not cut by the labelable mask: every fact row of
\* that gameweek is in it, though no such row is labelable.
C9_PredictionLatestUnlabeled ==
    pc = "prediction" =>
        /\ ~IsRaised(data)
        /\ \A i \in DOMAIN data.rows : data.rows[i]["gw"] = finished_index.max_finished_gw
        /\ data.cols \cap AllLabelCols = {}
        /\ \A j \in DOMAIN FactTable.rows :
               FactTable.rows[j]["gw"] = finished_index.max_finished_gw =>
                   \E i \in DOMAIN data.rows :
                       data.rows[i]["player_id"] = FactTable.rows[j]["id"]

C9_Witness ==
    /\ pc = "prediction"
    /\ finished_index.max_finished_gw = 3
    /\ Len(data.rows) = 2
    /\ \A i \in DOMAIN data.rows : data.rows[i]["gw"] = 3
    /\ \E i \in DOMAIN data.rows : data.rows[i]["minutes"] = Num(0)
    /\ "fixture_count_next_1" \in data.cols

----------------------------------------------------------------------------
(* The training run repeated after a new gameweek snapshot has arrived *)

\* the number of snapshots loaded
LoadedGws == SetMax({tables["teams"].rows[i]["gw"] : i \in DOMAIN tables["teams"].rows})

InitRerun ==
    /\ pc = "start"
    /\ \E n \in 2..(RerunMaxGw - 1), gap \in 0..(RerunMaxGw - 1),
          kind \in {"absent", "dnp"}, drift \in BOOLEAN, extras \in BOOLEAN :
           /\ gap <= n
           /\ gap = 0 => kind = "absent"
           /\ tables = load_tables(n, 1..n, gap, kind, n + 1, drift, extras)
    /\ \E hs \in {<<1>>, <<1, 2>>} :
           cfg = [horizons |-> hs, rolling_windows |-> DefaultWindows]
    /\ df = EmptyFrame
    /\ finished_index = NoIndex
    /\ data = EmptyFrame
    /\ earlier = EmptyFrame

FirstRun ==
    /\ pc = "start"
    /\ Finish(load_and_build_training(tables, cfg.rolling_windows, cfg.horizons,
                                      1, TRUE), "training")

\* the directory of the next gameweek arrives: every row it adds is tagged
\* with that gameweek
AppendGameweek ==
    /\ pc = "training"
    /\ LoadedGws < RerunMaxGw
    /\ \E fin \in BOOLEAN, kind \in {"dnp", "played"}, code1 \in {11, 12},
          strength1 \in {3, 5} :
           tables' = AppendSnapshot(tables,
                         Snapshot(LoadedGws + 1, fin, kind, code1, strength1,
                                  ~IsEmpty(tables["fixtures"])))
    /\ earlier' = data
    /\ pc' = "appended"
    /\ UNCHANGED <<cfg, df, finished_index, data>>

SecondRun ==
    /\ pc = "appended"
    /\ Finish(load_and_build_training(tables, cfg.rolling_windows, cfg.horizons,
                                      1, TRUE), "retrained")

NextRerun == FirstRun \/ AppendGameweek \/ SecondRun

SpecRerun == InitRerun /\ [][NextRerun]_vars

\* the rows of the two frames that are the same (player, gw)
SameRow(a, b) == a["player_id"] = b["player_id"] /\ a["gw"] = b["gw"]

\* C5: for a row at (player, g) of the training frame every non-label column
\* has the same value in two runs whose input tables differ only in rows
\* tagged with a gameweek later than g.
C5_NoFutureLeak ==
    (pc = "retrained" /\ ~IsRaised(earlier) /\ ~IsRaised(data)) =>
        \A i \in DOMAIN earlier.rows : \A j \in DOMAIN data.rows :
            SameRow(earlier.rows[i], data.rows[j]) =>
                \A c \in (earlier.cols \cap data.cols) \ AllLabelCols :
                    earlier.rows[i][c] = data.rows[j][c]

----------------------------------------------------------------------------
(* C11: rolling features of the prediction frame *)

\* the fact rows of player p at the gameweeks lo..hi, in gameweek order
FactsBetween(p, lo, hi) ==
    SortRows(SelectSeq(FactTable.rows,
                 LAMBDA r : r["id"] = p /\ r["gw"] >= lo /\ r["gw"] <= hi),
             <<"gw">>)

\* the source columns of the fact table that get rolling features
RolledFactCols == Range(DEFAULT_ROLLING_COLS) \cap FactTable.cols

\* C11: for each player, source column and window w, the <col>_roll<w> value
\* of the row at gameweek g is the mean of the column's observed values over
\* the player's rows at the gameweeks g-w+1 .. g.
C11_RollingOverGameweeks ==
    (pc = "prediction" /\ ~IsRaised(data)) =>
        \A i \in DOMAIN data.rows : \A c \in RolledFactCols :
            \A k \in DOMAIN cfg.rolling_windows :
                LET w == cfg.rolling_windows[k]
                    g == data.rows[i]["gw"]
                    facts == FactsBetween(data.rows[i]["player_id"], g - w + 1, g)
                IN  data.rows[i][RollCol(c, w)] =
                        MeanCells([n \in DOMAIN facts |-> facts[n][c]])

----------------------------------------------------------------------------
(* The rolling-feature builder called on a frame *)

\* what player 1's row of a gameweek may be: absent, or present with minutes
\* 0, 45 or 90 and event_points missing or 9
RollRowKinds ==
    {[present |-> FALSE, minutes |-> 0, pts |-> NaN],
     [present |-> TRUE, minutes |-> 90, pts |-> NaN]}
        \cup [present : {TRUE}, minutes : {0, 45, 90}, pts : {Num(9)}]

RollRow(p, g, minutes, pts) ==
    [player_id |-> p, gw |-> g, minutes |-> Num(minutes), event_points |-> pts]

\* the rows of player 1 in descending gameweek order, from gameweek g down
RECURSIVE RollRows(_, _)
RollRows(series, g) ==
    IF g = 0 THEN <<>>
    ELSE (IF series[g].present
          THEN <<RollRow(1, g, series[g].minutes, series[g].pts)>> ELSE <<>>)
         \o RollRows(series, g - 1)

InitRolling ==
    /\ pc = "start"
    /\ tables = [matches |-> EmptyFrame]
    /\ \E ws \in {<<3, 5, 10>>, <<2, 3>>} : cfg = [rolling_windows |-> ws]
    /\ \E series \in [1..RollMaxGw -> RollRowKinds] :
           df = Frame({"player_id", "gw", "minutes", "event_points"},
                      <<RollRow(2, 2, 90, Num(5))>> \o RollRows(series, RollMaxGw)
                          \o <<RollRow(2, 1, 30, Num(1))>>)
    /\ finished_index = NoIndex
    /\ data = EmptyFrame
    /\ earlier = EmptyFrame

\* add_player_rolling_features(base, windows=rolling_windows, per90=True,
\* include_current=True)
AddRolling ==
    /\ pc = "start"
    /\ data' = add_player_rolling_features(df, cfg.rolling_windows,
                    DEFAULT_ROLLING_COLS, TRUE, TRUE)
    /\ pc' = "rolled"
    /\ UNCHANGED <<tables, cfg, df, finished_index, earlier>>

\* add_per90_features(df, roll_cols) alone
AddPer90 ==
    /\ pc = "start"
    /\ data' = add_per90_features(df, _available_cols(df, DEFAULT_ROLLING_COLS))
    /\ pc' = "per90"
    /\ UNCHANGED <<tables, cfg, df, finished_index, earlier>>

SpecRolling == InitRolling /\ [][AddPer90 \/ AddRolling]_vars

\* the values of column c of the rows of the player of row i, from w - 1
\* rows before row i up to row i, in gameweek order
LastRows(f, i, c, w) ==
    LET mine == SortRows(SelectSeq(f.rows,
                    LAMBDA r : /\ r["player_id"] = f.rows[i]["player_id"]
                               /\ r["gw"] <= f.rows[i]["gw"]), <<"gw">>)
    IN  [n \in 1..(IF Len(mine) < w THEN Len(mine) ELSE w) |->
            mine[Len(mine) - (IF Len(mine) < w THEN Len(mine) ELSE w) + n][c]]

\* row i is the first row of its player in ascending gameweek order
IsFirstRow(f, i) ==
    \A j \in DOMAIN f.rows :
        f.rows[j]["player_id"] = f.rows[i]["player_id"] =>
            f.rows[i]["gw"] <= f.rows[j]["gw"]

RolledCols == {"minutes", "event_points", "minutes_per90", "event_points_per90"}

\* C12: for a player's first row the window-3 rolling feature of a column
\* equals the row's own observed value; a rolling feature is defined
\* whenever at least one value in its window is observed.
C12_FirstRowRolling ==
    pc = "rolled" =>
        /\ ~IsRaised(data)
        /\ \A i \in DOMAIN data.rows : \A c \in RolledCols :
               (IsFirstRow(data, i) /\ ~IsNaN(data.rows[i][c])) =>
                   /\ ~IsNaN(data.rows[i][RollCol(c, 3)])
                   /\ data.rows[i][RollCol(c, 3)] = data.rows[i][c]
        /\ \A i \in DOMAIN data.rows : \A c \in RolledCols :
               \A k \in DOMAIN cfg.rolling_windows :
                   (\E n \in DOMAIN LastRows(data, i, c, cfg.rolling_windows[k]) :
                        ~IsNaN(LastRows(data, i, c, cfg.rolling_windows[k])[n]))
                       => ~IsNaN(data.rows[i][RollCol(c, cfg.rolling_windows[k])])

\* player 1 starts at gameweek 2 with 9 points; its next row has no points
\* observed, yet its window-3 feature is defined
C12_Witness ==
    /\ pc = "rolled"
    /\ \E i, j \in DOMAIN data.rows :
           /\ data.rows[i]["player_id"] = 1 /\ data.rows[i]["gw"] = 2
           /\ IsFirstRow(data, i)
           /\ data.rows[i]["event_points"] = Num(9)
           /\ data.rows[i]["event_points_roll3"] = Num(9)
           /\ data.rows[j]["player_id"] = 1 /\ data.rows[j]["gw"] = 3
           /\ IsNaN(data.rows[j]["event_points"])
           /\ data.rows[j]["event_points_roll3"] = Num(9)

\* a * b for two cells that hold numbers
MulCells(a, b) == Frac(a[1] * b[1], a[2] * b[2])

IsInf(c) == Len(c) = 2 /\ c[2] = 0

\* C13: for every row and source column c, c_per90 equals c / minutes * 90
\* when minutes is non-zero (minutes 45 and metric 9 give 18), and is
\* undefined, never infinite and never zero, when minutes is 0.
C13_Per90 ==
    pc \in {"per90", "rolled"} =>
        /\ ~IsRaised(data)
        /\ \A i \in DOMAIN data.rows : \A c \in {"minutes", "event_points"} :
               LET r == data.rows[i] IN
               /\ (r["minutes"] # Num(0) /\ ~IsNaN(r[c])) =>
                      /\ ~IsNaN(r[Per90Col(c)]) /\ ~IsInf(r[Per90Col(c)])
                      /\ MulCells(r[Per90Col(c)], r["minutes"]) = MulCells(r[c], Num(90))
               /\ (r["minutes"] = Num(45) /\ r[c] = Num(9)) => r[Per90Col(c)] = Num(18)
               /\ r["minutes"] = Num(0) =>
                      /\ IsNaN(r[Per90Col(c)])
                      /\ ~IsInf(r[Per90Col(c)])
                      /\ r[Per90Col(c)] # Num(0)

\* one row with minutes 45 and 9 points (18 per 90), one with minutes 0 and
\* 9 points (undefined)
C13_Witness ==
    /\ pc = "per90"
    /\ \E i, j \in DOMAIN data.rows :
           /\ data.rows[i]["minutes"] = Num(45) /\ data.rows[i]["event_points"] = Num(9)
           /\ data.rows[i]["event_points_per90"] = Num(18)
           /\ data.rows[j]["minutes"] = Num(0) /\ data.rows[j]["event_points"] = Num(9)
           /\ IsNaN(data.rows[j]["event_points_per90"])

----------------------------------------------------------------------------
(* C14: the rows of the base frame through the merges *)

\* the (player_id, gw) keys of the rows of a frame
KeysOf(f) == {<<f.rows[i]["player_id"], f.rows[i]["gw"]>> : i \in DOMAIN f.rows}

\* playermatchstats has a row of the player at the gameweek
HasMatchStats(p, g) ==
    \E i \in DOMAIN tables["playermatchstats"].rows :
        /\ tables["playermatchstats"].rows[i]["player_id"] = p
        /\ tables["playermatchstats"].rows[i]["gw"] = g

\* C14: the (player_id, gw) rows of the base frame are the rows of the
\* feature frame: none is dropped by a merge, and a base row for which the
\* match-statistics builder has no row gets undefined values in that
\* builder's columns.
C14_RowsPreserved ==
    pc = "features" =>
        /\ ~IsRaised(earlier) /\ ~IsRaised(data)
        /\ KeysOf(data) = KeysOf(earlier)
        /\ Len(data.rows) = Len(earlier.rows)
        /\ \A i \in DOMAIN data.rows :
               ("pm_sum_touches" \in data.cols
                   /\ ~HasMatchStats(data.rows[i]["player_id"], data.rows[i]["gw"])) =>
                   /\ IsNaN(data.rows[i]["pm_sum_touches"])
                   /\ IsNaN(data.rows[i]["pm_mean_touches"])

\* player 1 did not play gameweek 2: a base row, no match statistics
C14_Witness ==
    /\ pc = "features"
    /\ {"pm_sum_touches", "fixture_count_next_1"} \subseteq data.cols
    /\ <<1, 2>> \in KeysOf(earlier)
    /\ ~HasMatchStats(1, 2)
    /\ \E i \in DOMAIN data.rows :
           /\ data.rows[i]["player_id"] = 1 /\ data.rows[i]["gw"] = 2
           /\ IsNaN(data.rows[i]["pm_sum_touches"])
           /\ ~IsNaN(data.rows[i]["missed_last_n"])
    /\ \E i \in DOMAIN data.rows :
           /\ data.rows[i]["player_id"] = 2 /\ data.rows[i]["gw"] = 2
           /\ ~IsNaN(data.rows[i]["pm_sum_touches"])

----------------------------------------------------------------------------
(* C15: one row per key *)

\* no two rows of the frame share the values of the key columns k1, k2
UniqueKeys(f, k1, k2) ==
    \A i, j \in DOMAIN f.rows :
        (f.rows[i][k1] = f.rows[j][k1] /\ f.rows[i][k2] = f.rows[j][k2]) => i = j

\* C15: each builder's output has at most one row per key, (player_id, gw)
\* or (team_id, gw) for the fixture-difficulty builder, and with one fact row
\* per (player id, gw) the base, training, prediction and feature frames
\* have at most one row per (player_id, gw).
C15_OneRowPerKey ==
    /\ UniqueKeys(FactTable, "id", "gw")
    /\ pc \in {"base", "training", "prediction", "features"} =>
           ~IsRaised(data) /\ UniqueKeys(data, "player_id", "gw")
    /\ pc = "features" =>
           /\ UniqueKeys(earlier, "player_id", "gw")
           /\ UniqueKeys(build_availability_flags(FactTable, PyMax(cfg.rolling_windows)),
                         "player_id", "gw")
           /\ UniqueKeys(build_playermatchstats_features(tables["playermatchstats"],
                             tables["matches"], {"sum", "mean"}),
                         "player_id", "gw")
           /\ UniqueKeys(build_team_fixture_difficulty(tables["fixtures"],
                             _latest_by_key(tables["teams"], "code"), <<1, 5, 10, 15>>),
                         "team_id", "gw")
           /\ UniqueKeys(_build_team_gw_features(tables["matches"],
                             _latest_by_key(tables["teams"], "code"),
                             finished_index.max_finished_gw),
                         "team_id", "gw")

\* a feature frame of several gameweeks built from all the tables, the
\* players and teams tables holding one row per snapshot
C15_Witness ==
    /\ pc = "features"
    /\ {"pm_sum_touches", "fixture_count_next_1", "sub_on_rate_last_n",
         "missed_last_n", "team_strength"} \subseteq data.cols
    /\ Len(data.rows) = 2 * PipeMaxGw
    /\ Len(tables["players"].rows) = 2 * PipeMaxGw
    /\ Len(tables["teams"].rows) = 2 * PipeMaxGw

----------------------------------------------------------------------------
(* validate_columns called on one table *)

\* a table of any subset of its required columns and the gw tag, no rows
InitSchema ==
    /\ pc = "start"
    /\ tables = [matches |-> EmptyFrame]
    /\ \E t \in Range(TableOrder) :
           /\ cfg = [table |-> t]
           /\ \E cols \in SUBSET (Range(REQUIRED_COLUMNS[t]) \cup {"gw"}) :
                  df = Frame(cols, <<>>)
    /\ finished_index = NoIndex
    /\ data = EmptyFrame
    /\ earlier = EmptyFrame

\* validate_columns(tables[name], required, name)
ValidateColumns ==
    /\ pc = "start"
    /\ data' = validate_columns(df, REQUIRED_COLUMNS[cfg.table], cfg.table)
    /\ pc' = "validated"
    /\ UNCHANGED <<tables, cfg, df, finished_index, earlier>>

SpecSchema == InitSchema /\ [][ValidateColumns]_vars

\* the required columns of the table under validation that the frame lacks
MissingOf(f) == Range(REQUIRED_COLUMNS[cfg.table]) \ f.cols

\* C16: validate_columns raises a schema error that names every required
\* column missing from the table, not only the first one, and raises
\* nothing when every required column is present.
C16_NamesEveryMissing ==
    pc = "validated" =>
        IF MissingOf(df) = {} THEN data = None
        ELSE /\ IsRaised(data)
             /\ data.raised = "ValueError"
             /\ Range(data.missing) = MissingOf(df)
             /\ Len(data.missing) = Cardinality(MissingOf(df))

\* a teams table without strength and elo: both are named
C16_Witness ==
    /\ pc = "validated"
    /\ cfg.table = "teams"
    /\ df.cols = {"gw", "code", "id", "name"}
    /\ IsRaised(data)
    /\ data.missing = <<"strength", "elo">>

----------------------------------------------------------------------------
(* The pipelines run on loaded tables that may fail the schema *)

\* the tables with column c of table t missing ("*": the table is a frame
\* without columns, as load_all_gws returns when it read no file; "": nothing)
Damaged(tbl, t, c) ==
    IF c = "" THEN tbl
    ELSE IF c = "*" THEN [x \in DOMAIN tbl |-> IF x = t THEN EmptyFrame ELSE tbl[x]]
    ELSE [x \in DOMAIN tbl |-> IF x = t THEN DropColumns(tbl[x], {c}) ELSE tbl[x]]

InitValidate ==
    /\ pc = "start"
    /\ \E t \in Range(TableOrder) :
           \E c \in Range(REQUIRED_COLUMNS[t]) \cup {"*", ""} :
               tables = Damaged(load_tables(2, {1, 2}, 0, "absent", 3, FALSE, TRUE), t, c)
    /\ cfg = [horizons |-> <<1>>, rolling_windows |-> DefaultWindows]
    /\ df = EmptyFrame
    /\ finished_index = NoIndex
    /\ data = EmptyFrame
    /\ earlier = EmptyFrame

SpecValidate ==
    InitValidate /\ [][LoadAndBuildBase \/ LoadAndBuildTraining \/ PredictNext]_vars

\* C17: in every pipeline entry point the schema validation of the loaded
\* tables comes before the finished-gameweek index and every builder: when
\* it fails, its error is the outcome, no index and no frame is produced.
C17_ValidateFirst ==
    (pc \in {"base", "training", "prediction"} /\ IsRaised(validate_all(tables))) =>
        /\ data = validate_all(tables)
        /\ finished_index = NoIndex

\* matches without its finished column: the index would raise an error of
\* its own, the run ends with the schema error
C17_Witness ==
    /\ pc = "training"
    /\ "finished" \notin tables["matches"].cols
    /\ IsRaised(compute_finished_gws(tables["matches"]))
    /\ IsRaised(data)
    /\ data # compute_finished_gws(tables["matches"])
    /\ data.msg = "Missing columns in matches"
    /\ data.missing = <<"finished">>

----------------------------------------------------------------------------
(* The encodings of the finished flag *)

FlagStrings ==
    {<<"t", "r", "u", "e">>, <<"T", "r", "u", "e">>, <<"T", "R", "U", "E">>,
     <<"t">>, <<"T">>, <<"y", "e", "s">>, <<"Y", "e", "s">>, <<"1">>,
     <<"f", "a", "l", "s", "e">>, <<"F", "a", "l", "s", "e">>, <<"n", "o">>,
     <<"0">>, <<"1", ".", "0">>, <<"y">>, <<>>}

\* the values a finished cell of matches.csv can hold once it is read
FlagValues ==
    {PyBool(TRUE), PyBool(FALSE), PyInt(0), PyInt(1), PyInt(2),
     PyFloat(0), PyFloat(1), PyNaN}
    \cup {PyStr(str) : str \in FlagStrings}

InitFlag ==
    /\ pc = "start"
    /\ \E c1 \in FlagValues, c2 \in FlagValues :
           tables = [matches |-> Frame(MatchCols(TRUE),
                                       <<MatchRow(1, c1, TRUE), MatchRow(2, c2, TRUE)>>)]
    /\ cfg = [horizons |-> <<>>]
    /\ df = EmptyFrame
    /\ finished_index = NoIndex
    /\ data = EmptyFrame
    /\ earlier = EmptyFrame

SpecFlag == InitFlag /\ [][ComputeIndex]_vars

\* the values the flag is stated to be true for
StatedTrue(c) ==
    \/ c.t = "bool" /\ c.b
    \/ c.t \in {"int", "float"} /\ c.n = 1
    \/ c.t = "str" /\ StrLower(c.s) \in TruthyStrings

\* C18: the finished flag of a match row counts as true exactly when it is
\* boolean true, numeric 1 or one of the strings "true", "t", "yes", "1" in
\* any case; a gameweek of one match is finished exactly then.
C18_FinishedEncodings ==
    pc = "index" =>
        \A i \in DOMAIN tables["matches"].rows :
            LET r == tables["matches"].rows[i]
            IN  (r["gw"] \in Range(finished_index.finished_gws))
                <=> StatedTrue(r["finished"])

----------------------------------------------------------------------------
(* The index and the base dataset on tables without their keys *)

\* the fact rows in player_gameweek_stats ("pgw"), in playerstats only
\* ("playerstats") or in neither ("none")
FactsIn(tbl, place) ==
    LET facts == tbl["player_gameweek_stats"]
        none == Frame(facts.cols, <<>>)
    IN  [x \in DOMAIN tbl |->
            IF x = "player_gameweek_stats" THEN (IF place = "pgw" THEN facts ELSE none)
            ELSE IF x = "playerstats" THEN (IF place = "playerstats" THEN facts ELSE none)
            ELSE tbl[x]]

\* the tables without the columns drop_m of matches and drop_f of the two
\* fact tables
WithoutKeys(tbl, drop_m, drop_f) ==
    [x \in DOMAIN tbl |->
        IF x = "matches" THEN DropColumns(tbl[x], drop_m)
        ELSE IF x \in {"player_gameweek_stats", "playerstats"} THEN DropColumns(tbl[x], drop_f)
        ELSE tbl[x]]

InitKeys ==
    /\ pc = "start"
    /\ \E n \in 1..2, place \in {"pgw", "playerstats", "none"},
          drop_m \in SUBSET {"gw", "gameweek", "finished"}, drop_f \in {{}, {"gw"}} :
           tables = WithoutKeys(
                        FactsIn(load_tables(n, 1..n, 0, "absent", 3, FALSE, TRUE), place),
                        drop_m, drop_f)
    /\ cfg = [horizons |-> <<>>]
    /\ df = EmptyFrame
    /\ finished_index = NoIndex
    /\ data = EmptyFrame
    /\ earlier = EmptyFrame

\* build_base_dataset(tables, finished_index, min_minutes=0)
BuildBase ==
    /\ pc = "index"
    /\ ~IsRaised(finished_index)
    /\ data' = build_base_dataset(tables, finished_index, 0)
    /\ pc' = "built"
    /\ UNCHANGED <<tables, cfg, df, finished_index, earlier>>

SpecKeys == InitKeys /\ [][ComputeIndex \/ BuildBase]_vars

\* the table build_base_dataset takes the fact rows from
FactSource ==
    IF IsEmpty(tables["player_gameweek_stats"]) THEN tables["playerstats"]
    ELSE tables["player_gameweek_stats"]

\* C19: compute_finished_gws raises when the match table has neither gw nor
\* gameweek or has no finished column; build_base_dataset raises when both
\* fact tables are empty or the fact table has no gw column. Neither passes
\* its input through.
C19_MissingKeyFatal ==
    /\ (pc = "index" /\ (({"gw", "gameweek"} \cap tables["matches"].cols = {})
                          \/ "finished" \notin tables["matches"].cols))
           => (IsRaised(finished_index) /\ finished_index.raised = "ValueError")
    /\ (pc = "built" /\ (IsEmpty(FactSource) \/ "gw" \notin FactSource.cols))
           => (IsRaised(data) /\ data.raised = "ValueError")

\* the fact rows are in playerstats only and have no gw column: the base
\* dataset raises
C19_Witness ==
    /\ pc = "built"
    /\ IsEmpty(tables["player_gameweek_stats"])
    /\ ~IsEmpty(tables["playerstats"])
    /\ "gw" \notin tables["playerstats"].cols
    /\ IsRaised(data)
    /\ data.msg = "player_gameweek_stats missing gw column"

----------------------------------------------------------------------------
(* The fixture difficulty of small fixture lists *)

\* the pairings (home, away) one gameweek can hold; in the last one team 1
\* plays twice
Pairings ==
    {<<>>, <<<<1, 2>>>>, <<<<2, 1>>>>, <<<<1, 3>>>>, <<<<1, 2>>, <<3, 1>>>>}

\* the rows of fixtures.csv of gameweeks 1..g, with the gw tag of the
\* loader or with the gameweek column of the file alone
RECURSIVE FixtureRows(_, _, _)
FixtureRows(pairs, g, add_gw) ==
    IF g = 0 THEN <<>>
    ELSE FixtureRows(pairs, g - 1, add_gw)
         \o [i \in DOMAIN pairs[g] |->
                (IF add_gw THEN [gw |-> g] ELSE <<>>)
                @@ [gameweek |-> g,
                    home_team |-> Num(pairs[g][i][1]), away_team |-> Num(pairs[g][i][2]),
                    home_team_elo |-> Num(1500 + 50 * pairs[g][i][1]),
                    away_team_elo |-> Num(1500 + 50 * pairs[g][i][2])]]

InitFixtures ==
    /\ pc = "start"
    /\ \E pairs \in [1..FxMaxGw -> Pairings], add_gw \in BOOLEAN, dim \in BOOLEAN :
           tables =
               [fixtures |->
                    Frame({"gameweek", "home_team", "away_team", "home_team_elo",
                           "away_team_elo"} \cup (IF add_gw THEN {"gw"} ELSE {}),
                          FixtureRows(pairs, FxMaxGw, add_gw)),
                teams |->
                    IF dim THEN Frame({"gw", "code", "id", "name", "strength", "elo"},
                                      TeamsSnapshot(1, 3))
                    ELSE EmptyFrame]
    /\ cfg \in {[horizons |-> <<1, 5, 10, 15>>], [horizons |-> <<1, 2>>]}
    /\ df = EmptyFrame
    /\ finished_index = NoIndex
    /\ data = EmptyFrame
    /\ earlier = EmptyFrame

\* build_team_fixture_difficulty(fixtures, teams_dim, horizons)
BuildFixtureDifficulty ==
    /\ pc = "start"
    /\ df' = build_team_fixture_difficulty(tables["fixtures"], tables["teams"],
                                           cfg.horizons)
    /\ pc' = "fixtures"
    /\ UNCHANGED <<tables, cfg, finished_index, data, earlier>>

SpecFixtures == InitFixtures /\ [][BuildFixtureDifficulty]_vars

\* the fixtures of team t (home or away) with gameweek in lo..hi
FixturesOf(t, lo, hi) ==
    {i \in DOMAIN tables["fixtures"].rows :
        LET r == tables["fixtures"].rows[i]
        IN  /\ r["gameweek"] \in lo..hi
            /\ (r["home_team"] = Num(t) \/ r["away_team"] = Num(t))}

\* C20: for every team, every gameweek g from the smallest to the largest
\* fixture gameweek and every horizon h, fixture_count_next_h is the number
\* of the team's fixtures (home or away) with gameweek in (g, g+h], and
\* with a count of 0 the four averages are undefined, not zero.
C20_FixtureCount ==
    (pc = "fixtures" /\ tables["fixtures"].rows # <<>>) =>
        \A t \in 1..3 :
            FixturesOf(t, 1, FxMaxGw) # {} =>
                \A g \in 1..FxMaxGw :
                    ((\E u \in 1..3 : FixturesOf(u, 1, g) # {})
                     /\ (\E u \in 1..3 : FixturesOf(u, g, FxMaxGw) # {})) =>
                        /\ Cardinality({i \in DOMAIN df.rows :
                                            df.rows[i]["team_id"] = Num(t)
                                            /\ df.rows[i]["gw"] = g}) = 1
                        /\ \A i \in DOMAIN df.rows, k \in DOMAIN cfg.horizons :
                               (df.rows[i]["team_id"] = Num(t) /\ df.rows[i]["gw"] = g) =>
                                   LET h == cfg.horizons[k]
                                       n == Cardinality(FixturesOf(t, g + 1, g + h))
                                   IN  /\ df.rows[i][FxCol("fixture_count", h)] = Num(n)
                                       /\ n = 0 =>
                                              \A stem \in {"home_share", "opp_elo_avg",
                                                            "opp_strength_avg",
                                                            "elo_delta_avg"} :
                                                  IsNaN(df.rows[i][FxCol(stem, h)])

\* team 1 has two fixtures in gameweek 2 and none after it: at gameweek 1
\* its count for horizon 1 is 2, at gameweek 2 it is 0 with undefined
\* averages
C20_Witness ==
    /\ pc = "fixtures"
    /\ \E i \in DOMAIN df.rows, j \in DOMAIN df.rows :
           /\ df.rows[i]["team_id"] = Num(1) /\ df.rows[i]["gw"] = 1
           /\ df.rows[i]["fixture_count_next_1"] = Num(2)
           /\ df.rows[i]["home_share_next_1"] = Frac(1, 2)
           /\ df.rows[j]["team_id"] = Num(1) /\ df.rows[j]["gw"] = 2
           /\ df.rows[j]["fixture_count_next_1"] = Num(0)
           /\ IsNaN(df.rows[j]["opp_elo_avg_next_1"])

----------------------------------------------------------------------------
(* The substitution rates on match tables without their keys *)

InitSubRates ==
    /\ pc = "start"
    /\ \E drop_pm \in SUBSET {"gw", "match_id", "player_id", "start_min", "finish_min"},
          drop_m \in SUBSET {"gw", "gameweek", "match_id"},
          rows_pm \in BOOLEAN, rows_m \in BOOLEAN :
           LET tbl == load_tables(2, {1, 2}, 0, "absent", 3, FALSE, TRUE)
               cut(f, drop, rows) ==
                   DropColumns(IF rows THEN f ELSE Frame(f.cols, <<>>), drop)
               \* player 1 has a second match row in gameweek 1
               pm == Frame(tbl["playermatchstats"].cols,
                           tbl["playermatchstats"].rows
                               \o <<[gw |-> 1, player_id |-> 1, match_id |-> 101,
                                     minutes_played |-> Num(30), start_min |-> Num(60),
                                     finish_min |-> Num(90), touches |-> Num(5)]>>)
           IN  /\ tables = [playermatchstats |-> cut(pm, drop_pm, rows_pm),
                            matches |-> cut(tbl["matches"], drop_m, rows_m)]
               /\ df = build_base_dataset(tbl, FinishedGwIndex(<<1, 2>>, 2), 0)
    /\ cfg = [horizons |-> <<>>]
    /\ finished_index = NoIndex
    /\ data = EmptyFrame
    /\ earlier = EmptyFrame

\* add_substitution_rates(features, tables["playermatchstats"], tables["matches"])
AddSubstitutionRates ==
    /\ pc = "start"
    /\ data' = add_substitution_rates(df, tables["playermatchstats"], tables["matches"],
                                      5, 70, 1)
    /\ pc' = "sub_rates"
    /\ UNCHANGED <<tables, cfg, df, finished_index, earlier>>

\* build_playermatchstats_features(pm, matches, agg=("sum", "mean"))
BuildMatchFeatures ==
    /\ pc = "start"
    /\ earlier' = build_playermatchstats_features(tables["playermatchstats"],
                                                  tables["matches"], {"sum", "mean"})
    /\ pc' = "pm_features"
    /\ UNCHANGED <<tables, cfg, df, finished_index, data>>

SpecSubRates == InitSubRates /\ [][AddSubstitutionRates \/ BuildMatchFeatures]_vars

\* no gameweek can be derived for the match rows: playermatchstats has no
\* gw and matches has neither gw nor gameweek
NoGwDerivable ==
    /\ "gw" \notin tables["playermatchstats"].cols
    /\ {"gw", "gameweek"} \cap tables["matches"].cols = {}

\* the conditions add_substitution_rates tests before it derives a gameweek
MissingEarlyKey ==
    \/ IsEmpty(tables["playermatchstats"]) \/ IsEmpty(tables["matches"])
    \/ "match_id" \notin tables["playermatchstats"].cols
    \/ "match_id" \notin tables["matches"].cols
    \/ "player_id" \notin tables["playermatchstats"].cols

\* C21: add_substitution_rates returns its input frame unchanged and raises
\* nothing whenever playermatchstats or matches is empty, match_id is
\* missing from either, player_id is missing, no gameweek can be derived
\* for the match rows, or start_min/finish_min are missing.
C21_PassThrough ==
    (pc = "sub_rates"
     /\ (\/ MissingEarlyKey
         \/ NoGwDerivable
         \/ {"start_min", "finish_min"} \ tables["playermatchstats"].cols # {}))
        => data = df

----------------------------------------------------------------------------
(* src/io/loaders.py: the gameweek directories and load_all_gws *)

DigitChars == <<"0", "1", "2", "3", "4", "5", "6", "7", "8", "9">>

\* int(text) of a string of decimal digits; ValueError otherwise
RECURSIVE ParseInt(_)
ParseInt(text) ==
    LET last == text[Len(text)]
        front == SubSeq(text, 1, Len(text) - 1)
        digit == (CHOOSE d \in DOMAIN DigitChars : DigitChars[d] = last) - 1
    IN  IF text = <<>> \/ last \notin Range(DigitChars)
        THEN Raised("ValueError", "invalid literal for int()")
        ELSE IF front = <<>> THEN [int |-> digit]
        ELSE IF IsRaised(ParseInt(front)) THEN ParseInt(front)
        ELSE [int |-> 10 * ParseInt(front).int + digit]

\* the variant that keeps the order of iterdir
list_gw_dirs_unsorted(entries) ==
    LET named == SelectSeq(entries,
                     LAMBDA e : /\ e.is_dir
                                /\ Len(e.name) >= 2
                                /\ StrLower(SubSeq(e.name, 1, 2)) = <<"g", "w">>
                                /\ ~IsRaised(ParseInt(SubSeq(e.name, 3, Len(e.name)))))
    IN  [i \in DOMAIN named |->
            [num |-> ParseInt(SubSeq(named[i].name, 3, Len(named[i].name))).int,
             gw_num |-> ParseInt(SubSeq(named[i].name, 3, Len(named[i].name))).int,
             file |-> named[i].file]]

\* list_gw_dirs: the entries that are directories named gw<number> in any
\* case, sorted by the number (sorted() is stable)
list_gw_dirs(entries) ==
    LET named == SelectSeq(entries,
                     LAMBDA e : /\ e.is_dir
                                /\ Len(e.name) >= 2
                                /\ StrLower(SubSeq(e.name, 1, 2)) = <<"g", "w">>
                                /\ ~IsRaised(ParseInt(SubSeq(e.name, 3, Len(e.name)))))
    IN  SortRows([i \in DOMAIN named |->
                     [num |-> ParseInt(SubSeq(named[i].name, 3, Len(named[i].name))).int,
                      gw_num |-> ParseInt(SubSeq(named[i].name, 3, Len(named[i].name))).int,
                      file |-> named[i].file]],
                 <<"num">>)

\* pd.concat(frames, ignore_index=True): the rows in order, a column a frame
\* lacks is NaN in its rows
Concat(frames) ==
    LET cols == UNION {frames[i].cols : i \in DOMAIN frames}
    IN  Frame(cols,
              Flatten([i \in DOMAIN frames |->
                  [k \in DOMAIN frames[i].rows |->
                      [c \in cols |-> IF c \in frames[i].cols
                                      THEN frames[i].rows[k][c] ELSE NaN]]]))

\* the variant that skips a missing file in strict mode too
load_all_gws_lenient(entries, add_gw, allow_missing) ==
    LET dirs == SelectSeq(list_gw_dirs(entries), LAMBDA d : d.file # None)
        tagged(d) == IF add_gw /\ "gw" \notin d.file.cols
                     THEN SetColumn(d.file, "gw", [k \in DOMAIN d.file.rows |-> d.gw_num])
                     ELSE d.file
        frames == [i \in DOMAIN dirs |-> tagged(dirs[i])]
    IN  IF frames = <<>> THEN EmptyFrame ELSE Concat(frames)

\* load_all_gws: entries is the listing of the By Gameweek directory, the
\* file of an entry is None when the directory lacks it
load_all_gws(entries, add_gw, allow_missing) ==
    LET dirs == list_gw_dirs(entries)
        found == SelectSeq(dirs, LAMBDA d : d.file # None)
        tagged(d) == IF add_gw /\ "gw" \notin d.file.cols
                     THEN SetColumn(d.file, "gw", [k \in DOMAIN d.file.rows |-> d.gw_num])
                     ELSE d.file
        frames == [i \in DOMAIN found |-> tagged(found[i])]
        non_empty == SelectSeq(frames, LAMBDA f : ~IsEmpty(f))
    IN  IF ~allow_missing /\ Len(found) < Len(dirs)
        THEN Raised("FileNotFoundError", "Missing file")
        ELSE IF frames = <<>> THEN EmptyFrame
        ELSE IF non_empty = <<>> THEN Frame(found[1].file.cols, <<>>)
        ELSE Concat(non_empty)

\* the names an entry of the By Gameweek directory can have, each with the
\* number its rows are marked with
DirNames ==
    <<<<"G", "W", "1">>, <<"g", "w", "2">>, <<"G", "W", "1", "0">>,
      <<"G", "W", "x">>, <<"W", "k", "3">>>>

\* what a directory holds of the file: nothing, the header alone, one row
\* without a gw column, two rows with a gw column of their own
DirFile(n, kind) ==
    CASE kind = "none" -> None
      [] kind = "header" -> Frame({"id"}, <<>>)
      [] kind = "plain" -> Frame({"id"}, <<[id |-> Num(10 * n)]>>)
      [] kind = "own" -> Frame({"id", "gw"}, <<[id |-> Num(10 * n + 1), gw |-> 7],
                                              [id |-> Num(10 * n + 2), gw |-> 7]>>)

InitLoader ==
    /\ pc = "start"
    /\ \E len \in 0..MaxDirs :
           \E names \in [1..len -> DOMAIN DirNames],
              kinds \in [1..len -> {"none", "header", "plain", "own"}] :
               /\ \A i, j \in 1..len : names[i] = names[j] => i = j
               /\ tables = [entries |->
                                [i \in 1..len |->
                                    [name |-> DirNames[names[i]], is_dir |-> TRUE,
                                     file |-> DirFile(names[i], kinds[i])]]
                                \o <<[name |-> <<"G", "W", "5">>, is_dir |-> FALSE,
                                      file |-> None]>>]
    /\ cfg \in [add_gw : BOOLEAN, allow_missing : BOOLEAN]
    /\ df = EmptyFrame
    /\ finished_index = NoIndex
    /\ data = EmptyFrame
    /\ earlier = EmptyFrame

\* load_all_gws(by_gameweek_dir, filename, add_gw, allow_missing)
LoadAllGws ==
    /\ pc = "start"
    /\ data' = load_all_gws(tables["entries"], cfg.add_gw, cfg.allow_missing)
    /\ pc' = "loaded"
    /\ UNCHANGED <<tables, cfg, df, finished_index, earlier>>

SpecLoader == InitLoader /\ [][LoadAllGws]_vars

\* the gameweek number of the directory a loaded row was read from (the
\* rows of DirFile carry the place of their directory's name in DirNames)
DirNumberOf(row) == <<1, 2, 10, 0, 0>>[row["id"][1] \div 10]

\* the rows of the files of the listed directories named gw<number>
FileRowIds ==
    UNION {{e.file.rows[k]["id"] : k \in DOMAIN e.file.rows} :
              e \in {x \in Range(tables["entries"]) :
                        /\ x.is_dir /\ x.file # None
                        /\ x.name \in {DirNames[1], DirNames[2], DirNames[3]}}}

\* C22: load_all_gws returns the rows of the file of every gameweek
\* directory, each once, the rows of a lower gameweek number before those of
\* a higher one and the rows of one file in their order; a row of a file
\* without a gw column carries its directory's number as gw; entries without
\* a parsable gameweek number contribute nothing.
C22_ConcatInGwOrder ==
    (pc = "loaded" /\ ~IsRaised(data)) =>
        /\ {data.rows[i]["id"] : i \in DOMAIN data.rows} = FileRowIds
        /\ Len(data.rows) = Cardinality(FileRowIds)
        /\ \A i, j \in DOMAIN data.rows :
               i < j => \/ DirNumberOf(data.rows[i]) < DirNumberOf(data.rows[j])
                        \/ /\ DirNumberOf(data.rows[i]) = DirNumberOf(data.rows[j])
                           /\ data.rows[i]["id"][1] < data.rows[j]["id"][1]
        /\ cfg.add_gw =>
               \A i \in DOMAIN data.rows :
                   data.rows[i]["gw"] = IF data.rows[i]["id"][1] % 10 = 0
                                        THEN DirNumberOf(data.rows[i]) ELSE 7

\* GW10 is listed before gw2, with an unparsable name between them: the
\* row of gw2 comes first and carries gw 2, the rows of GW10 keep their own gw
C22_Witness ==
    /\ pc = "loaded"
    /\ cfg.add_gw
    /\ Len(tables["entries"]) = 4
    /\ tables["entries"][1].name = DirNames[3]
    /\ tables["entries"][2].name = DirNames[4]
    /\ tables["entries"][3].name = DirNames[2]
    /\ ~IsRaised(data)
    /\ Len(data.rows) = 3
    /\ data.rows[1] = [id |-> Num(20), gw |-> 2]
    /\ data.rows[2] = [id |-> Num(31), gw |-> 7]
    /\ data.rows[3] = [id |-> Num(32), gw |-> 7]

\* the listed gameweek directories that hold the file (has) or lack it
GwDirsWith(has) ==
    {x \in Range(tables["entries"]) :
        /\ x.is_dir
        /\ x.name \in {DirNames[1], DirNames[2], DirNames[3]}
        /\ (x.file # None) = has}

\* strict mode raises when a gameweek directory lacks the file, lenient
\* mode skips the directory
StrictOrSkip ==
    /\ (~cfg.allow_missing /\ GwDirsWith(FALSE) # {})
           => (IsRaised(data) /\ data.raised = "FileNotFoundError")
    /\ cfg.allow_missing
           => /\ ~IsRaised(data)
              /\ {data.rows[i]["id"] : i \in DOMAIN data.rows} = FileRowIds

\* C23 as stated: whenever no gameweek directory holds the file the result
\* is an empty table and not an error, in either mode.
C23_AsStated ==
    pc = "loaded" =>
        /\ StrictOrSkip
        /\ GwDirsWith(TRUE) = {} => (~IsRaised(data) /\ IsEmpty(data))

\* C23: when a gameweek directory lacks the file, load_all_gws raises in
\* strict mode and skips the directory in lenient mode; when no directory
\* holds the file it returns an empty table in lenient mode, and in strict
\* mode when there is no gameweek directory at all.
C23_MissingFile ==
    pc = "loaded" =>
        /\ StrictOrSkip
        /\ (GwDirsWith(TRUE) = {} /\ (cfg.allow_missing \/ GwDirsWith(FALSE) = {}))
               => (~IsRaised(data) /\ IsEmpty(data))

\* lenient mode, two gameweek directories that both lack the file: the
\* result is the empty table
C23_Witness ==
    /\ pc = "loaded"
    /\ cfg.allow_missing
    /\ Cardinality(GwDirsWith(FALSE)) = 2
    /\ GwDirsWith(TRUE) = {}
    /\ data = EmptyFrame

----------------------------------------------------------------------------
(* The training pipeline run twice on the same tables *)

\* load_and_build_training once more, on the tables of the first run
RunAgain ==
    /\ pc = "training"
    /\ earlier' = data
    /\ LET result == load_and_build_training(tables, cfg.rolling_windows, cfg.horizons,
                                             1, TRUE)
       IN  /\ data' = IF IsRaised(result) THEN result ELSE result.data
           /\ finished_index' = IF IsRaised(result) THEN NoIndex
                                 ELSE result.finished_index
    /\ pc' = "again"
    /\ UNCHANGED <<tables, cfg, df>>

\* the loaded tables of Init with the horizon that keeps most rows
InitTwice == Init /\ cfg.horizons = <<1>>

SpecTwice == InitTwice /\ [][LoadAndBuildTraining \/ RunAgain]_vars

----------------------------------------------------------------------------
(* C25 *)

\* the tables without the rows tagged with a gameweek after g
UpToGw(tbl, g) ==
    [t \in DOMAIN tbl |->
        Frame(tbl[t].cols, SelectSeq(tbl[t].rows, LAMBDA r : r["gw"] <= g))]

\* the base dataset holds exactly the fact rows with gw <= max_finished_gw
\* and minutes >= min_minutes (1 in load_and_build_base)
BaseRowsWithinWatermark ==
    (pc = "base" /\ ~IsRaised(data)) =>
        /\ \A i \in DOMAIN data.rows :
               /\ data.rows[i]["gw"] <= finished_index.max_finished_gw
               /\ MinutesAtLeast(data.rows[i], 1)
        /\ \A k \in DOMAIN FactTable.rows :
               (/\ FactTable.rows[k]["gw"] <= finished_index.max_finished_gw
                /\ MinutesAtLeast(FactTable.rows[k], 1))
                   => \E i \in DOMAIN data.rows :
                          /\ data.rows[i]["player_id"] = FactTable.rows[k]["id"]
                          /\ data.rows[i]["gw"] = FactTable.rows[k]["gw"]
                          /\ data.rows[i]["minutes"] = FactTable.rows[k]["minutes"]
                          /\ data.rows[i]["event_points"] = FactTable.rows[k]["event_points"]

\* C25: every row of the base dataset has gw <= max_finished_gw and
\* minutes >= min_minutes and every such fact row is kept; no row of a
\* gameweek beyond the watermark reaches a feature or label of the training
\* path: the training frame is the one built without those rows.
C25_Watermark ==
    /\ BaseRowsWithinWatermark
    /\ (pc = "training" /\ ~IsRaised(data)) =>
           data = build_training_dataset(UpToGw(tables, finished_index.max_finished_gw),
                                         finished_index, cfg.rolling_windows,
                                         cfg.horizons, 1, TRUE)

----------------------------------------------------------------------------
(* C26 *)

\* the gameweek of a playermatchstats row: its own gw, or the gw (gameweek)
\* of the match of its match_id
PmGwOf(r) ==
    IF "gw" \in tables["playermatchstats"].cols THEN r["gw"]
    ELSE LET m == WithGwAlias(tables["matches"])
         IN  m.rows[CHOOSE j \in DOMAIN m.rows : m.rows[j]["match_id"] = r["match_id"]]["gw"]

\* player_id or the gameweek of the match rows cannot be established
NoGrain ==
    \/ "player_id" \notin tables["playermatchstats"].cols
    \/ /\ "gw" \notin tables["playermatchstats"].cols
       /\ \/ IsEmpty(tables["matches"])
          \/ "match_id" \notin tables["playermatchstats"].cols
          \/ "match_id" \notin tables["matches"].cols
          \/ {"gw", "gameweek"} \cap tables["matches"].cols = {}

\* the numeric columns of playermatchstats that are not join keys
PmValueCols ==
    tables["playermatchstats"].cols
        \cap {"minutes_played", "start_min", "finish_min", "touches"}

\* C26: for every (player_id, gw) with a playermatchstats row the builder
\* outputs exactly one row, whose pm_sum_<c> and pm_mean_<c> are the sum and
\* the mean of c over the player's match rows of the gameweek, for every
\* numeric column c that is not a join key; it returns an empty result when
\* player_id or a gameweek cannot be established.
C26_MatchAggregates ==
    pc = "pm_features" =>
        /\ ~IsRaised(earlier)
        /\ NoGrain => IsEmpty(earlier)
        /\ ~NoGrain =>
               \A k \in DOMAIN tables["playermatchstats"].rows :
                   LET pm == tables["playermatchstats"].rows
                       same == SelectSeq(pm, LAMBDA r :
                                   /\ r["player_id"] = pm[k]["player_id"]
                                   /\ PmGwOf(r) = PmGwOf(pm[k]))
                       out == {i \in DOMAIN earlier.rows :
                                  /\ earlier.rows[i]["player_id"] = pm[k]["player_id"]
                                  /\ earlier.rows[i]["gw"] = PmGwOf(pm[k])}
                   IN  /\ Cardinality(out) = 1
                       /\ \A i \in out, c \in PmValueCols :
                              /\ {"pm_sum_" \o c, "pm_mean_" \o c} \subseteq earlier.cols
                              /\ earlier.rows[i]["pm_sum_" \o c]
                                     = SumCells([n \in DOMAIN same |-> same[n][c]])
                              /\ earlier.rows[i]["pm_mean_" \o c]
                                     = MeanCells([n \in DOMAIN same |-> same[n][c]])

----------------------------------------------------------------------------
(* The availability flags of small fact frames *)

\* build_availability_flags(flags_src, window_gw=max(rolling_windows)) on
\* the fact frame with the optional source columns opt; with blank the
\* minutes of the 45-minute rows are missing
BuildAvailabilityFlags ==
    /\ pc = "start"
    /\ \E opt \in {{}, {"starts"}, {"status", "chance_of_playing_next_round"},
                    {"starts", "status", "chance_of_playing_next_round"}},
          blank \in BOOLEAN :
           LET optional(r) ==
                   [c \in opt |->
                       IF c = "starts" THEN (IF r["minutes"] = Num(90) THEN Num(1) ELSE Num(0))
                       ELSE IF c = "status" THEN (IF r["minutes"] = Num(0) THEN <<<<"i">>>> ELSE <<<<"a">>>>)
                       ELSE (IF r["minutes"] = Num(0) THEN Num(75) ELSE NaN)]
               input(r) ==
                   optional(r) @@ [r EXCEPT !["minutes"] =
                                      IF blank /\ @ = Num(45) THEN NaN ELSE @]
           IN  earlier' = Frame(df.cols \cup opt, [i \in DOMAIN df.rows |-> input(df.rows[i])])
    /\ data' = build_availability_flags(earlier', PyMax(cfg.rolling_windows))
    /\ pc' = "flags"
    /\ UNCHANGED <<tables, cfg, df, finished_index>>

SpecAvailability == InitRolling /\ [][BuildAvailabilityFlags]_vars

\* the rows of the input among the player's last n rows up to and including
\* gameweek g whose minutes are missing or not above 0
MissedRows(p, g, n) ==
    {k \in DOMAIN earlier.rows :
        /\ earlier.rows[k]["player_id"] = p
        /\ earlier.rows[k]["gw"] <= g
        /\ Cardinality({m \in DOMAIN earlier.rows :
                           /\ earlier.rows[m]["player_id"] = p
                           /\ earlier.rows[m]["gw"] > earlier.rows[k]["gw"]
                           /\ earlier.rows[m]["gw"] <= g}) < n
        /\ (IsNaN(earlier.rows[k]["minutes"])
            \/ ~CellLess(Num(0), earlier.rows[k]["minutes"]))}

\* C27: missed_last_n of the row at (player, g) is the number of the
\* player's last N rows up to and including g with minutes <= 0 or missing,
\* between 0 and N; starts_last_n, status_flag and chance_flag are produced
\* exactly when their source columns exist, and nothing is raised.
C27_MissedLastN ==
    pc = "flags" =>
        /\ ~IsRaised(data)
        /\ Len(data.rows) = Len(earlier.rows)
        /\ \A i \in DOMAIN data.rows :
               LET n == PyMax(cfg.rolling_windows)
                   missed == Cardinality(MissedRows(data.rows[i]["player_id"],
                                                    data.rows[i]["gw"], n))
               IN  /\ data.rows[i]["missed_last_n"] = Num(missed)
                   /\ 0 <= missed /\ missed <= n
        /\ ("starts_last_n" \in data.cols) <=> ("starts" \in earlier.cols)
        /\ ("status_flag" \in data.cols) <=> ("status" \in earlier.cols)
        /\ ("chance_flag" \in data.cols)
               <=> ("chance_of_playing_next_round" \in earlier.cols)

\* window 3, no optional column, player 1 with four rows without minutes
\* played, one of them missing: the last row counts 3
C27_Witness ==
    /\ pc = "flags"
    /\ PyMax(cfg.rolling_windows) = 3
    /\ earlier.cols = {"player_id", "gw", "minutes", "event_points"}
    /\ \E k \in DOMAIN earlier.rows :
           earlier.rows[k]["player_id"] = 1 /\ IsNaN(earlier.rows[k]["minutes"])
    /\ \E i \in DOMAIN data.rows :
           /\ data.rows[i]["player_id"] = 1 /\ data.rows[i]["gw"] = RollMaxGw
           /\ data.rows[i]["missed_last_n"] = Num(3)
           /\ Cardinality(MissedRows(1, RollMaxGw, RollMaxGw)) = 4
    /\ data.cols = {"player_id", "gw", "missed_last_n", "avg_minutes_last_n"}

----------------------------------------------------------------------------
(* C28: empty tables *)

\* the loaded tables with any of fixtures, playermatchstats and matches
\* empty in every snapshot, and the base dataset of the finished gameweeks
InitEmpty ==
    /\ pc = "start"
    /\ \E finished \in FinishedPatterns(PipeMaxGw), gap \in {0, 2},
          empty \in SUBSET {"fixtures", "playermatchstats", "matches"} :
           LET tbl == load_tables(PipeMaxGw, finished, gap,
                                  IF gap = 0 THEN "absent" ELSE "dnp",
                                  PipeMaxGw + 1, FALSE, TRUE)
           IN  /\ tables = [t \in DOMAIN tbl |->
                               IF t \in empty THEN NoTables[t] ELSE tbl[t]]
               /\ df = build_base_dataset(tables, compute_finished_gws(tables["matches"]), 0)
    /\ \E hs \in {<<1>>, <<1, 2>>} :
           cfg = [horizons |-> hs, rolling_windows |-> DefaultWindows]
    /\ finished_index = NoIndex
    /\ data = EmptyFrame
    /\ earlier = EmptyFrame

\* _build_team_gw_features(matches, teams_dim, max_finished_gw) as
\* build_base_dataset calls it
BuildTeamGw ==
    /\ pc = "start"
    /\ finished_index' = compute_finished_gws(tables["matches"])
    /\ earlier' = _build_team_gw_features(tables["matches"],
                                          _latest_by_key(tables["teams"], "code"),
                                          finished_index'.max_finished_gw)
    /\ pc' = "team_gw"
    /\ UNCHANGED <<tables, cfg, df, data>>

\* build_team_fixture_difficulty(fixtures, teams_dim, (1, 5, 10, 15)) as
\* build_feature_dataset calls it, on the latest snapshot of each team
BuildFixtureFeatures ==
    /\ pc = "start"
    /\ earlier' = build_team_fixture_difficulty(
                       tables["fixtures"],
                       DropDuplicatesLast(sort_values(tables["teams"], <<"gw">>), "code"),
                       <<1, 5, 10, 15>>)
    /\ pc' = "fixtures"
    /\ UNCHANGED <<tables, cfg, df, finished_index, data>>

SpecEmpty ==
    InitEmpty /\ [][BuildFixtureFeatures \/ BuildMatchFeatures \/ AddSubstitutionRates
                    \/ BuildTeamGw \/ LoadAndBuildTraining \/ PredictNext]_vars

\* C28: a feature builder given an empty table returns a value, never an
\* exception: the fixture-difficulty builder on empty fixtures, the match
\* aggregation on empty playermatchstats and the team-gameweek aggregation on
\* empty matches return an empty frame, the substitution rates on empty
\* playermatchstats or matches return the input unchanged, and the training
\* and prediction assemblers still return a frame keyed by player and gameweek
C28_EmptyAsValue ==
    /\ (pc = "fixtures" /\ IsEmpty(tables["fixtures"]))
           => (~IsRaised(earlier) /\ IsEmpty(earlier))
    /\ (pc = "pm_features" /\ IsEmpty(tables["playermatchstats"]))
           => (~IsRaised(earlier) /\ IsEmpty(earlier))
    /\ (pc = "sub_rates"
            /\ (IsEmpty(tables["playermatchstats"]) \/ IsEmpty(tables["matches"])))
           => data = df
    /\ (pc = "team_gw" /\ IsEmpty(tables["matches"]))
           => (~IsRaised(earlier) /\ IsEmpty(earlier))
    /\ pc \in {"training", "prediction"}
           => (~IsRaised(data) /\ {"player_id", "gw"} \subseteq data.cols)

\* a training frame with rows built from tables whose fixtures and
\* playermatchstats are empty
C28_Witness ==
    /\ pc = "training"
    /\ IsEmpty(tables["fixtures"]) /\ IsEmpty(tables["playermatchstats"])
    /\ ~IsEmpty(tables["matches"])
    /\ ~IsRaised(data) /\ data.rows # <<>>

----------------------------------------------------------------------------
(* src/models/train.py: feature columns and the train/validation split *)

DEFAULT_EXCLUDE_COLS == {"player_id", "gw", "team_id", "team_code", "code", "id"}

\* the columns whose cells are plain integers in a frame of the pipeline
KeyColumns == {"gw", "player_id"}

\* the numbers that the text cells of the datasets spell
TextValue == ("1.5" :> Frac(3, 2)) @@ ("0" :> Num(0))

\* pd.to_numeric(cell, errors="coerce"): a number stays, text that spells a
\* number becomes it, other text becomes NaN
to_numeric(c) ==
    IF Len(c) # 1 THEN c
    ELSE IF c[1] \in DOMAIN TextValue THEN TextValue[c[1]]
    ELSE NaN

\* the column has dtype object: one of its cells is text
IsObjectColumn(f, c) ==
    c \notin KeyColumns /\ \E i \in DOMAIN f.rows : Len(f.rows[i][c]) = 1

\* numeric_like_columns(df, threshold=0.9): the object columns of which at
\* least nine cells in ten convert to a number
numeric_like_columns(f) ==
    {c \in f.cols :
        /\ IsObjectColumn(f, c)
        /\ 10 * Cardinality({i \in DOMAIN f.rows : ~IsNaN(to_numeric(f.rows[i][c]))})
               >= 9 * Len(f.rows)}

get_label_columns(targets, horizons) ==
    UNION {{TotalCol(t, h), PerWeekCol(t, h)} : t \in targets, h \in Range(horizons)}

\* the variant that excludes no label column
get_feature_columns_with_labels(f, targets, horizons, exclude_cols, include_cols) ==
    LET candidate == {c \in f.cols : ~IsObjectColumn(f, c)} \cup numeric_like_columns(f)
        excluded == exclude_cols \cup DEFAULT_EXCLUDE_COLS
        kept == IF include_cols # {} THEN candidate \cap (include_cols \cap f.cols)
                ELSE candidate
    IN  {c \in f.cols : c \in kept /\ c \notin excluded}

\* get_feature_columns: the columns of df, in the order of df.columns, that
\* are numeric or numeric-like, not excluded and, with include_cols, included;
\* an empty exclude_cols or include_cols stands for None as well
get_feature_columns(f, targets, horizons, exclude_cols, include_cols) ==
    LET candidate == {c \in f.cols : ~IsObjectColumn(f, c)} \cup numeric_like_columns(f)
        excluded == exclude_cols \cup DEFAULT_EXCLUDE_COLS
                        \cup get_label_columns(targets, horizons)
        kept == IF include_cols # {} THEN candidate \cap (include_cols \cap f.cols)
                ELSE candidate
    IN  {c \in f.cols : c \in kept /\ c \notin excluded}

\* train_models up to feature_cols: the labels of the targets and of every
\* position's targets are excluded; position_targets maps positions to
\* target sets, the empty function standing for None
train_models_feature_cols(f, targets, horizons, exclude_cols, include_cols, position_targets) ==
    IF "position" \notin f.cols
    THEN Raised("ValueError", "Training dataset must include position column")
    ELSE [feature_cols |->
              get_feature_columns(
                  f, targets \cup UNION {position_targets[p] : p \in DOMAIN position_targets},
                  horizons, exclude_cols, include_cols)]

\* the variant that cuts at the latest gameweek whatever holdout_gws is
_split_train_val_at_max(f, holdout_gws) ==
    IF holdout_gws <= 0 \/ "gw" \notin f.cols
    THEN [train |-> f, val |-> EmptyFrame]
    ELSE LET cutoff == SetMax({r["gw"] : r \in Range(f.rows)}) - 1
         IN  [train |-> Frame(f.cols, SelectSeq(f.rows, LAMBDA r : r["gw"] <= cutoff)),
              val |-> Frame(f.cols, SelectSeq(f.rows, LAMBDA r : r["gw"] >= cutoff))]

\* _split_train_val(df, holdout_gws) of a frame with rows
_split_train_val(f, holdout_gws) ==
    IF holdout_gws <= 0 \/ "gw" \notin f.cols
    THEN [train |-> f, val |-> EmptyFrame]
    ELSE LET cutoff == SetMax({r["gw"] : r \in Range(f.rows)}) - holdout_gws
         IN  [train |-> Frame(f.cols, SelectSeq(f.rows, LAMBDA r : r["gw"] <= cutoff)),
              val |-> Frame(f.cols, SelectSeq(f.rows, LAMBDA r : r["gw"] > cutoff))]

\* the configuration before train_models ran
NoTraining ==
    [targets |-> {}, position_targets |-> <<>>, horizons |-> <<>>,
     exclude_cols |-> {}, include_cols |-> {}, holdout_gws |-> 0,
     position |-> "", label_col |-> ""]

\* the training dataset of the loaded tables, with a text column form that
\* spells a number in every row or in every row but the first
InitTrain ==
    /\ pc = "start"
    /\ \E finished \in {1..PipeMaxGw, 1..(PipeMaxGw - 1)}, hs \in {<<1>>, <<1, 2>>},
          spelled \in BOOLEAN :
           LET run == load_and_build_training(
                          load_tables(PipeMaxGw, finished, 0, "absent", 3, FALSE, TRUE),
                          DefaultWindows, hs, 1, TRUE)
           IN  /\ cfg = [horizons |-> hs, rolling_windows |-> DefaultWindows,
                         training |-> NoTraining]
               /\ df = SetColumn(run.data, "form",
                          [i \in DOMAIN run.data.rows |->
                              IF i = 1 /\ ~spelled THEN <<"n/a">> ELSE <<"1.5">>])
               /\ finished_index = run.finished_index
    /\ tables = <<>>
    /\ data = EmptyFrame
    /\ earlier = EmptyFrame

TrainTargets == {"points", "expected_goals", "expected_assists", "defensive_contribution"}

\* train_models computes feature_cols for a configuration
SelectFeatures ==
    /\ pc = "start"
    /\ \E targets \in {{}, {"points"}, {"points", "expected_goals"}, TrainTargets},
          position_targets \in {<<>>, [p \in {"DEF"} |-> {"defensive_contribution"}],
                                [p \in {"DEF", "FWD"} |->
                                    IF p = "DEF" THEN {"defensive_contribution"}
                                    ELSE {"expected_goals", "expected_assists"}]},
          horizons \in {<<1>>, <<1, 2>>},
          exclude_cols \in {{}, {"minutes"}},
          include_cols \in {{}, {"minutes", "form", "points_next_1_total", "absent"}} :
           /\ cfg' = [cfg EXCEPT !.training =
                         [@ EXCEPT !.targets = targets,
                                   !.position_targets = position_targets,
                                   !.horizons = horizons,
                                   !.exclude_cols = exclude_cols,
                                   !.include_cols = include_cols]]
           /\ data' = train_models_feature_cols(df, targets, horizons, exclude_cols,
                                                include_cols, position_targets)
    /\ pc' = "feature_cols"
    /\ UNCHANGED <<tables, df, finished_index, earlier>>

\* train_models splits the labeled rows of one position for one label
SplitTrainVal ==
    /\ pc = "start"
    /\ \E position \in {"DEF", "MID", "FWD"}, h \in Range(cfg.horizons),
          holdout_gws \in -1..PipeMaxGw :
           LET label_col == TotalCol("points", h)
               subset == Frame(df.cols,
                               SelectSeq(df.rows,
                                   LAMBDA r : r["position"] = <<position>>
                                              /\ ~IsNaN(r[label_col])))
               split == _split_train_val(subset, holdout_gws)
           IN  /\ ~IsEmpty(subset)
               /\ cfg' = [cfg EXCEPT !.training =
                             [@ EXCEPT !.holdout_gws = holdout_gws,
                                       !.position = position,
                                       !.label_col = label_col]]
               /\ data' = split.train
               /\ earlier' = split.val
    /\ pc' = "split"
    /\ UNCHANGED <<tables, df, finished_index>>

SpecTrain == InitTrain /\ [][SelectFeatures \/ SplitTrainVal]_vars

\* the label columns that the label builder put into the training dataset
DatasetLabelCols == UNION {LabelColsOf(df, h) : h \in Range(cfg.horizons)}

\* C29: the feature columns that train_models selects hold no label column
\* of the training dataset, whatever targets, position targets and horizons
\* are configured
C29_NoLabelFeature ==
    (pc = "feature_cols" /\ ~IsRaised(data)) => data.feature_cols \cap DatasetLabelCols = {}

\* the label columns of the configured targets and horizons are never selected
ConfiguredLabelsExcluded ==
    (pc = "feature_cols" /\ ~IsRaised(data)) =>
        data.feature_cols \cap get_label_columns(
                     cfg.training.targets
                         \cup UNION {cfg.training.position_targets[p] :
                                        p \in DOMAIN cfg.training.position_targets},
                     cfg.training.horizons) = {}

\* the rows that train_models hands to _split_train_val: the rows of the
\* position whose label is defined
SplitInput ==
    SelectSeq(df.rows,
        LAMBDA r : r["position"] = <<cfg.training.position>>
                   /\ ~IsNaN(r[cfg.training.label_col]))

\* C30: with holdout_gws = k > 0 the training part holds the rows with
\* gw <= max gw - k and the validation part the rows with gw > max gw - k,
\* every row is in exactly one part and every training row is of a strictly
\* earlier gameweek than every validation row; with k <= 0 every row is a
\* training row and the validation part is empty
C30_SplitPartition ==
    pc = "split" =>
        LET k == cfg.training.holdout_gws
            cutoff == SetMax({r["gw"] : r \in Range(SplitInput)}) - k
        IN  IF k > 0
            THEN /\ data.rows = SelectSeq(SplitInput, LAMBDA r : r["gw"] <= cutoff)
                 /\ earlier.rows = SelectSeq(SplitInput, LAMBDA r : r["gw"] > cutoff)
                 /\ \A r \in Range(SplitInput) :
                        (r \in Range(data.rows)) # (r \in Range(earlier.rows))
                 /\ Len(data.rows) + Len(earlier.rows) = Len(SplitInput)
                 /\ \A t \in Range(data.rows), v \in Range(earlier.rows) :
                        t["gw"] < v["gw"]
            ELSE data.rows = SplitInput /\ IsEmpty(earlier)

\* a split with a holdout that leaves rows in both parts
C30_Witness ==
    /\ pc = "split"
    /\ cfg.training.holdout_gws > 0
    /\ data.rows # <<>> /\ earlier.rows # <<>>

============================================================================
